---------------------------- MODULE Spec2Model ----------------------------
(***************************************************************************)
(* A model of nu_plugin_dbus: the D-Bus signature grammar (dbus_type.rs)   *)
(* and the conversion between nushell values and D-Bus message items       *)
(* (convert.rs), and the calls of the client (client.rs).                  *)
(*                                                                         *)
(* Text is modelled as a sequence of one-character strings, so that        *)
(* slicing (&input[1..]), starts_with and concatenation are the sequence   *)
(* operations Tail, Head and \o.                                           *)
(***************************************************************************)
EXTENDS Integers, Sequences, FiniteSets, TLC

VARIABLES
    input,      \* the signature text handed to parse / parse_all
    ts,         \* a sequence of DbusType trees handed to stringify
    host_value, \* the nushell Value handed to to_message_item
    expected,   \* the Option<&DbusType> handed to to_message_item
    wire_arg,   \* the D-Bus argument handed to from_refarg
    reply,      \* the arguments of the reply Message handed to from_message
    ops,        \* the operations applied so far, oldest first
    result,     \* the value returned by the last operation
    req,        \* the arguments of the call or set that the client runs
    pc,         \* where the client is in it: the reply it is blocked on
    valid_signature, \* the local valid_signature of call and set
    sent,       \* the requests sent on the connection, oldest first
    warnings,   \* the warnings printed to stderr, oldest first
    separator,  \* the separator given to Pattern::new, if any
    pattern,    \* the Pattern that Pattern::new built
    string,     \* the string given to is_match
    tokens,     \* is_match: the tokens still to be matched
    search_str, \* is_match: the rest of the string
    state       \* is_match: its MatchState

vars == <<input, ts, host_value, expected, wire_arg, reply, ops, result,
          req, pc, valid_signature, sent, warnings,
          separator, pattern, string, tokens, search_str, state>>

\* the state of the conversions, which the signature grammar leaves alone
conv == <<host_value, expected, wire_arg, reply>>
\* the state of the client, which the grammar and the conversions leave alone
cli == <<req, pc, valid_signature, sent, warnings>>
\* the state of the signature grammar, which the conversions leave alone
gram == <<input, ts>>
\* the state of the pattern matcher, which all of these leave alone
pat == <<separator, pattern, string, tokens, search_str, state>>

(***************************************************************************)
(* Bounds of the model                                                     *)
(***************************************************************************)
\* longest signature text drawn as an input of parse / parse_all
MaxSigLen == 5
\* largest number of nodes in a generated sequence of DbusType trees
MaxNodes == 4
\* how far from each limit of an integer type the integer inputs reach
MaxDelta == 1
\* longest Binary, longest List and largest expected type drawn as inputs
MaxBinLen == 2
MaxListLen == 2
MaxTypeNodes == 3
\* longest pattern text given to Pattern::new, longest string given to is_match
MaxPatLen == 3
MaxStrLen == 3
\* most arguments of a reply Message handed to from_message
MaxReplyLen == 2
\* most arguments handed to a call of the client
MaxArgs == 2

(***************************************************************************)
(* DbusType (dbus_type.rs, enum DbusType)                                  *)
(***************************************************************************)
Byte       == [tag |-> "Byte"]
Boolean    == [tag |-> "Boolean"]
Int16      == [tag |-> "Int16"]
UInt16     == [tag |-> "UInt16"]
Int32      == [tag |-> "Int32"]
UInt32     == [tag |-> "UInt32"]
Int64      == [tag |-> "Int64"]
UInt64     == [tag |-> "UInt64"]
Double     == [tag |-> "Double"]
String     == [tag |-> "String"]
ObjectPath == [tag |-> "ObjectPath"]
Signature  == [tag |-> "Signature"]
Variant    == [tag |-> "Variant"]
Array(content)      == [tag |-> "Array", content |-> content]
Struct(types)       == [tag |-> "Struct", types |-> types]
DictEntry(key, val) == [tag |-> "DictEntry", key |-> key, val |-> val]

\* the variants of DbusType that carry no inner type
ScalarTypes ==
    { Byte, Boolean, Int16, UInt16, Int32, UInt32, Int64, UInt64,
      Double, String, ObjectPath, Signature, Variant }

(***************************************************************************)
(* Result<(DbusType, &str), String> and Result<Vec<DbusType>, String>      *)
(***************************************************************************)
ParseOk(type, remainder) == [ok |-> TRUE, type |-> type, remainder |-> remainder]
ParseAllOk(out)          == [ok |-> TRUE, out |-> out]
ParseErr(msg)            == [ok |-> FALSE, err |-> msg]

(***************************************************************************)
(* DbusType::parse: one type from the front of the text, and the rest      *)
(***************************************************************************)
RECURSIVE parse(_)
RECURSIVE parse_struct_loop(_, _)

\* mutant: the ")" that ends the struct is left in the remainder
parse_struct_loop_keeps_paren(remainder, types) ==
    IF remainder = <<>>
    THEN ParseErr("unexpected end of D-Bus type string before end of array")
    ELSE IF Head(remainder) = ")"
    THEN ParseOk(Struct(types), remainder)
    ELSE LET r == parse(remainder)
         IN  IF r.ok
             THEN parse_struct_loop(r.remainder, Append(types, r.type))
             ELSE r

\* mutant: a struct that the end of the text cuts short is accepted
parse_struct_loop_unclosed(remainder, types) ==
    IF remainder = <<>>
    THEN ParseOk(Struct(types), remainder)
    ELSE IF Head(remainder) = ")"
    THEN ParseOk(Struct(types), Tail(remainder))
    ELSE LET r == parse(remainder)
         IN  IF r.ok
             THEN parse_struct_loop(r.remainder, Append(types, r.type))
             ELSE r

\* the loop of the '(' arm: remainder and types are its two locals
parse_struct_loop(remainder, types) ==
    IF remainder = <<>>
    THEN ParseErr("unexpected end of D-Bus type string before end of array")
    ELSE IF Head(remainder) = ")"
    THEN ParseOk(Struct(types), Tail(remainder))
    ELSE LET r == parse(remainder)
         IN  IF r.ok
             THEN parse_struct_loop(r.remainder, Append(types, r.type))
             ELSE r

parse(text) ==
    IF text = <<>>
    THEN ParseErr("unexpected end of D-Bus type string")
    ELSE LET c    == Head(text)
             rest == Tail(text)
         IN  CASE c = "y" -> ParseOk(Byte, rest)
               [] c = "b" -> ParseOk(Boolean, rest)
               [] c = "n" -> ParseOk(Int16, rest)
               [] c = "q" -> ParseOk(UInt16, rest)
               [] c = "i" -> ParseOk(Int32, rest)
               [] c = "u" -> ParseOk(UInt32, rest)
               [] c = "x" -> ParseOk(Int64, rest)
               [] c = "t" -> ParseOk(UInt64, rest)
               [] c = "d" -> ParseOk(Double, rest)
               [] c = "s" -> ParseOk(String, rest)
               [] c = "o" -> ParseOk(ObjectPath, rest)
               [] c = "g" -> ParseOk(Signature, rest)
               [] c = "a" ->
                    LET r == parse(rest)
                    IN  IF r.ok THEN ParseOk(Array(r.type), r.remainder) ELSE r
               [] c = "(" -> parse_struct_loop(rest, <<>>)
               [] c = "v" -> ParseOk(Variant, rest)
               [] c = "{" ->
                    LET k == parse(rest)
                    IN  IF ~k.ok THEN k
                        ELSE LET v == parse(k.remainder)
                             IN  IF ~v.ok THEN v
                                 ELSE IF v.remainder # <<>> /\ Head(v.remainder) = "}"
                                 THEN ParseOk(DictEntry(k.type, v.type), Tail(v.remainder))
                                 ELSE ParseErr("expected } char to end dictionary")
               [] OTHER -> ParseErr("unexpected char in D-Bus type representation")

(***************************************************************************)
(* DbusType::parse_all: parse until the text is used up                    *)
(***************************************************************************)
RECURSIVE parse_all_loop(_, _)
\* mutant: a failing parse ends the loop with the types collected so far
parse_all_loop_partial(text, out) ==
    IF text = <<>>
    THEN ParseAllOk(out)
    ELSE LET r == parse(text)
         IN  IF r.ok
             THEN parse_all_loop(r.remainder, Append(out, r.type))
             ELSE ParseAllOk(out)

\* the while loop: text is the local input, out the vector built
parse_all_loop(text, out) ==
    IF text = <<>>
    THEN ParseAllOk(out)
    ELSE LET r == parse(text)
         IN  IF r.ok
             THEN parse_all_loop(r.remainder, Append(out, r.type))
             ELSE r

parse_all(text) == parse_all_loop(text, <<>>)

(***************************************************************************)
(* DbusType::stringify                                                     *)
(***************************************************************************)
RECURSIVE stringify(_)
RECURSIVE stringify_each(_)

\* mutant: the types are written last to first
stringify_each_reversed(types) ==
    IF types = <<>> THEN <<>>
    ELSE stringify_each(Tail(types)) \o stringify(Head(types))

\* types.iter().map(|t| t.stringify()) collected into one String
stringify_each(types) ==
    IF types = <<>> THEN <<>>
    ELSE stringify(Head(types)) \o stringify_each(Tail(types))

stringify(t) ==
    CASE t.tag = "Byte"       -> <<"y">>
      [] t.tag = "Boolean"    -> <<"b">>
      [] t.tag = "Int16"      -> <<"n">>
      [] t.tag = "UInt16"     -> <<"q">>
      [] t.tag = "Int32"      -> <<"i">>
      [] t.tag = "UInt32"     -> <<"u">>
      [] t.tag = "Int64"      -> <<"x">>
      [] t.tag = "UInt64"     -> <<"t">>
      [] t.tag = "Double"     -> <<"d">>
      [] t.tag = "String"     -> <<"s">>
      [] t.tag = "ObjectPath" -> <<"o">>
      [] t.tag = "Signature"  -> <<"g">>
      [] t.tag = "Array"      -> <<"a">> \o stringify(t.content)
      [] t.tag = "Struct"     -> <<"(">> \o stringify_each(t.types) \o <<")">>
      [] t.tag = "Variant"    -> <<"v">>
      [] t.tag = "DictEntry"  -> <<"{">> \o stringify(t.key) \o stringify(t.val) \o <<"}">>


(***************************************************************************)
(* Inputs of the signature grammar                                         *)
(***************************************************************************)
SeqsUpTo(S, n) == UNION { [1..k -> S] : k \in 0..n }

\* every character parse gives a meaning to, and one it does not
TypeCodes == {"y", "b", "n", "q", "i", "u", "x", "t", "d", "s", "o", "g", "v"}
AllChars  == TypeCodes \cup {"a", "(", ")", "{", "}", "*"}

\* the scalar types deep trees are built from, and the characters of the
\* long texts: one type code, the container characters and a foreign one
GenScalars == {Byte, String}
GenChars   == {"s", "a", "(", ")", "{", "}", "*"}

\* texts: every short text over all characters, longer ones over GenChars
SigTexts == SeqsUpTo(GenChars, MaxSigLen) \cup SeqsUpTo(AllChars, 2)

RECURSIVE TypesOfSize(_, _)
RECURSIVE TypeSeqsOfSize(_, _)
\* the DbusType trees of exactly n nodes whose scalars are in L
TypesOfSize(L, n) ==
    IF n = 0 THEN {}
    ELSE (IF n = 1 THEN L ELSE {})
         \cup { Array(t) : t \in TypesOfSize(L, n - 1) }
         \cup { Struct(s) : s \in TypeSeqsOfSize(L, n - 1) }
         \cup UNION { { DictEntry(k, v) : k \in TypesOfSize(L, a),
                                          v \in TypesOfSize(L, n - 1 - a) }
                      : a \in 1..(n - 2) }
\* the sequences of such trees with n nodes in all
TypeSeqsOfSize(L, n) ==
    IF n = 0 THEN {<<>>}
    ELSE UNION { { <<t>> \o s : t \in TypesOfSize(L, k),
                                s \in TypeSeqsOfSize(L, n - k) }
                 : k \in 1..n }

TypesUpTo(L, n)    == UNION { TypesOfSize(L, k) : k \in 1..n }
TypeSeqsUpTo(L, n) == UNION { TypeSeqsOfSize(L, k) : k \in 0..n }

\* sequences of trees: all of at most MaxNodes nodes, and every pair of scalars
TypeSeqs == TypeSeqsUpTo(GenScalars, MaxNodes) \cup SeqsUpTo(ScalarTypes, 2)

(***************************************************************************)
(* The signature grammar as a state machine: an input is drawn, then       *)
(* parse, parse_all or stringify is applied to it.                         *)
(***************************************************************************)
NoResult == [none |-> TRUE]

\* no call of the client is under way
NoClient ==
    /\ req = NoResult
    /\ pc = "idle"
    /\ valid_signature = NoResult
    /\ sent = <<>>
    /\ warnings = <<>>

\* no pattern is being built or matched
NoPattern ==
    /\ separator = NoResult
    /\ pattern = NoResult
    /\ string = <<>>
    /\ tokens = <<>>
    /\ search_str = <<>>
    /\ state = NoResult

InitGrammar ==
    /\ \/ input \in SigTexts /\ ts = <<>>
       \/ input = <<>> /\ ts \in TypeSeqs
    /\ host_value = NoResult /\ expected = NoResult /\ wire_arg = NoResult
    /\ reply = NoResult
    /\ ops = <<>>
    /\ result = NoResult
    /\ NoClient
    /\ NoPattern

\* DbusType::parse(input)
Parse ==
    /\ ops \in {<<>>, <<"stringify">>}
    /\ result' = parse(input)
    /\ ops' = Append(ops, "parse")
    /\ UNCHANGED <<input, ts, conv, cli, pat>>

\* DbusType::parse_all(input)
ParseAll ==
    /\ ops \in {<<>>, <<"stringify">>}
    /\ result' = parse_all(input)
    /\ ops' = Append(ops, "parse_all")
    /\ UNCHANGED <<input, ts, conv, cli, pat>>

\* t.stringify() of every type of ts, concatenated into one signature text
Stringify ==
    /\ ops = <<>>
    /\ ts # <<>>
    /\ input' = stringify_each(ts)
    /\ result' = input'
    /\ ops' = <<"stringify">>
    /\ UNCHANGED <<ts, conv, cli, pat>>

NextGrammar == Parse \/ ParseAll \/ Stringify

SpecGrammar == InitGrammar /\ [][NextGrammar]_vars


(***************************************************************************)
(* Well-formed signature texts, built from the type trees and not by       *)
(* parsing: the text of one type, and the text of a sequence of types.     *)
(* A text of n characters has at most n nodes.                             *)
(***************************************************************************)
GenNodes == IF MaxNodes > MaxSigLen THEN MaxNodes ELSE MaxSigLen

TypeTexts ==
    { stringify(t) : t \in TypesUpTo(GenScalars, GenNodes) \cup TypesUpTo(ScalarTypes, 2) }

ConcatTexts ==
    { stringify_each(s) : s \in TypeSeqsUpTo(GenScalars, GenNodes)
                               \cup TypeSeqsUpTo(ScalarTypes, 2) }

BeginsWithType(text) == \E k \in 1..Len(text) : SubSeq(text, 1, k) \in TypeTexts

LastOp == IF ops = <<>> THEN "none" ELSE ops[Len(ops)]

(***************************************************************************)
(* C1: round trip. For every sequence ts of DbusType trees, parse_all of   *)
(* the concatenation of stringify(t), t in ts, returns Ok(ts) exactly.     *)
(***************************************************************************)
C1_RoundTrip ==
    (ops = <<"stringify", "parse_all">>) => (result = ParseAllOk(ts))

\* a dict entry followed by the empty struct has gone through the round trip
C1_Witness ==
    /\ ops = <<"stringify", "parse_all">>
    /\ Len(ts) = 2
    /\ ts[1].tag = "DictEntry"
    /\ ts[2] = Struct(<<>>)
    /\ result.ok

(***************************************************************************)
(* C2: whenever parse(input) succeeds with (t, remainder), stringify(t)    *)
(* followed by remainder is the input, character for character; with an    *)
(* empty remainder, stringify(t) is the input.                             *)
(***************************************************************************)
C2_ParseConsumesOneType ==
    (LastOp = "parse" /\ result.ok) =>
        /\ stringify(result.type) \o result.remainder = input
        /\ (result.remainder = <<>> => stringify(result.type) = input)

\* a container was parsed and text was left over
C2_Witness ==
    /\ ops = <<"parse">>
    /\ result.ok
    /\ result.type.tag \in {"Array", "Struct", "DictEntry"}
    /\ result.remainder # <<>>

(***************************************************************************)
(* C3: parse returns an error, and no type, for every input that does not  *)
(* begin with a well-formed type: the empty input, a first character that  *)
(* is no type code, "a" with no type after it, "(" with no ")" and "{"     *)
(* without exactly two types and "}" (so "{ss", "{s}" and "{sss}" fail).   *)
(***************************************************************************)
IsParseErr(r) == DOMAIN r = {"ok", "err"} /\ ~r.ok

C3_MalformedIsError ==
    (LastOp = "parse") =>
        /\ (~BeginsWithType(input) => IsParseErr(result))
        /\ (input = <<>> => IsParseErr(result))
        /\ (input # <<>> /\ Head(input) \notin (TypeCodes \cup {"a", "(", "{"})
              => IsParseErr(result))
        /\ (input \in { <<"a">>, <<"(", "s", "s">>, <<"{", "s", "s">>,
                        <<"{", "s", "}">>, <<"{", "s", "s", "s", "}">> }
              => IsParseErr(result))

\* a dict entry with three types was rejected
C3_Witness ==
    /\ ops = <<"parse">>
    /\ input = <<"{", "s", "s", "s", "}">>
    /\ IsParseErr(result)

(***************************************************************************)
(* C4: parse_all consumes its whole input. The empty text gives the empty  *)
(* sequence; a concatenation of well-formed types gives those types in     *)
(* input order; a text with a malformed part gives an error and never a    *)
(* partial sequence.                                                       *)
(***************************************************************************)
C4_ParseAllWhole ==
    (LastOp = "parse_all") =>
        /\ (input = <<>> => result = ParseAllOk(<<>>))
        /\ (input \in ConcatTexts =>
                /\ DOMAIN result = {"ok", "out"} /\ result.ok
                /\ stringify_each(result.out) = input)
        /\ (input \notin ConcatTexts => IsParseErr(result))

\* a text that starts with two good types and ends malformed was rejected
C4_Witness ==
    /\ ops = <<"parse_all">>
    /\ input = <<"s", "a", "s", "(">>
    /\ IsParseErr(result)


(***************************************************************************)
(* Integers of the Rust integer types.  A magnitude is four 16-bit limbs,  *)
(* least significant first (64 bits); a number is a sign and a magnitude.  *)
(* Zero has no sign.                                                       *)
(***************************************************************************)
LimbBase == 2^16
TopLimb  == LimbBase - 1
HalfLimb == 2^15

Num(neg, mag) == [neg |-> neg /\ mag # <<0, 0, 0, 0>>, mag |-> mag]
Small(n)      == Num(FALSE, <<n, 0, 0, 0>>)

\* a <= b on magnitudes, most significant limb first
MagLE(a, b) ==
    \/ a[4] < b[4]
    \/ a[4] = b[4] /\ a[3] < b[3]
    \/ a[4] = b[4] /\ a[3] = b[3] /\ a[2] < b[2]
    \/ a[4] = b[4] /\ a[3] = b[3] /\ a[2] = b[2] /\ a[1] <= b[1]

\* the largest magnitude of a positive and of a negative value of each type
\* (u8::MAX, i16::MAX, i16::MIN, ...)
MaxMag(type) ==
    CASE type = Byte   -> <<255, 0, 0, 0>>
      [] type = Int16  -> <<HalfLimb - 1, 0, 0, 0>>
      [] type = UInt16 -> <<TopLimb, 0, 0, 0>>
      [] type = Int32  -> <<TopLimb, HalfLimb - 1, 0, 0>>
      [] type = UInt32 -> <<TopLimb, TopLimb, 0, 0>>
      [] type = Int64  -> <<TopLimb, TopLimb, TopLimb, HalfLimb - 1>>
      [] type = UInt64 -> <<TopLimb, TopLimb, TopLimb, TopLimb>>

MinMag(type) ==
    CASE type = Int16  -> <<HalfLimb, 0, 0, 0>>
      [] type = Int32  -> <<0, HalfLimb, 0, 0>>
      [] type = Int64  -> <<0, 0, 0, HalfLimb>>
      [] OTHER         -> <<0, 0, 0, 0>>

IsSignedTy(type) == type \in {Int16, Int32, Int64}

IntegerTypes == {Byte, Int16, UInt16, Int32, UInt32, Int64, UInt64}

\* n is a value of the integer type
InRange(n, type) ==
    IF n.neg THEN MagLE(n.mag, MinMag(type)) ELSE MagLE(n.mag, MaxMag(type))

\* mutant: the value is cast unchecked (val as T), whatever its size
try_from_unchecked(val, type) == [ok |-> TRUE, val |-> val]

\* T::try_from(val) for an i64 val: the value, or TryFromIntError
try_from(val, type) ==
    IF InRange(val, type)
    THEN [ok |-> TRUE, val |-> val]
    ELSE [ok |-> FALSE, err |-> "out of range integral type conversion attempted"]

\* m * 10 + d in 64 bits: the low 64 bits and the carry out of them
MulAdd10(m, d) ==
    LET l1 == m[1] * 10 + d
        l2 == m[2] * 10 + (l1 \div LimbBase)
        l3 == m[3] * 10 + (l2 \div LimbBase)
        l4 == m[4] * 10 + (l3 \div LimbBase)
    IN  [mag   |-> <<l1 % LimbBase, l2 % LimbBase, l3 % LimbBase, l4 % LimbBase>>,
         carry |-> l4 \div LimbBase]

\* m divided by 10: quotient and remainder, most significant limb first
DivMod10(m) ==
    LET r4 == m[4] % 10
        c3 == r4 * LimbBase + m[3]
        c2 == (c3 % 10) * LimbBase + m[2]
        c1 == (c2 % 10) * LimbBase + m[1]
    IN  [quot |-> <<c1 \div 10, c2 \div 10, c3 \div 10, m[4] \div 10>>,
         rem  |-> c1 % 10]

DigitChars == <<"0", "1", "2", "3", "4", "5", "6", "7", "8", "9">>
IsDigit(c)    == \E i \in 1..10 : DigitChars[i] = c
DigitValue(c) == (CHOOSE i \in 1..10 : DigitChars[i] = c) - 1

(***************************************************************************)
(* T::from_str(text) of the integer types (core::num): an optional sign,   *)
(* "-" only for the signed types, then digits accumulated with checked     *)
(* multiplication and addition in T.                                       *)
(***************************************************************************)
RECURSIVE from_str_digits(_, _, _, _)
from_str_digits(digits, acc, neg, type) ==
    IF digits = <<>> THEN [ok |-> TRUE, val |-> Num(neg, acc)]
    ELSE IF ~IsDigit(Head(digits))
    THEN [ok |-> FALSE, err |-> "invalid digit found in string"]
    ELSE LET n     == MulAdd10(acc, DigitValue(Head(digits)))
             limit == IF neg THEN MinMag(type) ELSE MaxMag(type)
         IN  IF n.carry # 0 \/ ~MagLE(n.mag, limit)
             THEN [ok |-> FALSE,
                   err |-> IF neg THEN "number too small to fit in target type"
                                  ELSE "number too large to fit in target type"]
             ELSE from_str_digits(Tail(digits), n.mag, neg, type)

\* mutant: a "-" is read for the unsigned types as it is for the signed
from_str_any_sign(text, type) ==
    IF text = <<>>
    THEN [ok |-> FALSE, err |-> "cannot parse integer from empty string"]
    ELSE IF text \in {<<"+">>, <<"-">>}
    THEN [ok |-> FALSE, err |-> "invalid digit found in string"]
    ELSE IF Head(text) = "+"
    THEN from_str_digits(Tail(text), <<0, 0, 0, 0>>, FALSE, type)
    ELSE IF Head(text) = "-"
    THEN from_str_digits(Tail(text), <<0, 0, 0, 0>>, TRUE, type)
    ELSE from_str_digits(text, <<0, 0, 0, 0>>, FALSE, type)

from_str(text, type) ==
    IF text = <<>>
    THEN [ok |-> FALSE, err |-> "cannot parse integer from empty string"]
    ELSE IF text \in {<<"+">>, <<"-">>}
    THEN [ok |-> FALSE, err |-> "invalid digit found in string"]
    ELSE IF Head(text) = "+"
    THEN from_str_digits(Tail(text), <<0, 0, 0, 0>>, FALSE, type)
    ELSE IF Head(text) = "-" /\ IsSignedTy(type)
    THEN from_str_digits(Tail(text), <<0, 0, 0, 0>>, TRUE, type)
    ELSE from_str_digits(text, <<0, 0, 0, 0>>, FALSE, type)

(***************************************************************************)
(* to_string of an integer (core::fmt): the decimal digits of the          *)
(* magnitude, by repeated division, after a "-" for a negative number      *)
(***************************************************************************)
RECURSIVE mag_to_string(_)
mag_to_string(m) ==
    LET d == DivMod10(m)
    IN  IF d.quot = <<0, 0, 0, 0>>
        THEN <<DigitChars[d.rem + 1]>>
        ELSE Append(mag_to_string(d.quot), DigitChars[d.rem + 1])

to_string(n) == IF n.neg THEN <<"-">> \o mag_to_string(n.mag) ELSE mag_to_string(n.mag)


(***************************************************************************)
(* nu_protocol::Value, as far as the conversion looks at it.  An Int is an *)
(* i64, a Binary a sequence of bytes, a Record a sequence of <<key, value>>*)
(* pairs with distinct keys.  Nothing stands for every other kind of Value.*)
(* The field that holds the val of a Value is named after its kind.        *)
(***************************************************************************)
VBool(val)   == [kind |-> "bool", bool |-> val]
VInt(val)    == [kind |-> "int", int |-> val]
VFloat(val)  == [kind |-> "float", float |-> val]
VString(val) == [kind |-> "string", string |-> val]
VBinary(val) == [kind |-> "binary", binary |-> val]
VList(vals)  == [kind |-> "list", vals |-> vals]
VRecord(val) == [kind |-> "record", record |-> val]
VNothing     == [kind |-> "nothing"]

\* Value::get_type, as it is printed in the error messages
get_type(value) == value.kind

\* expected_type: Option<&DbusType> is a DbusType or None
None == [tag |-> "None"]

(***************************************************************************)
(* dbus::arg::messageitem::MessageItem                                     *)
(***************************************************************************)
\* the scalar items: a bool, a string (Str, ObjectPath, Signature), an
\* integer of one of the seven types, a double
MBool(val)                    == [tag |-> "Bool", bool |-> val]
MString(tag, val)             == [tag |-> tag, string |-> val]
MInt(tag, val)                == [tag |-> tag, int |-> val]
MDouble(val)                  == [tag |-> "Double", float |-> val]
MArray(items, sig)            == [tag |-> "Array", items |-> items, sig |-> sig]
MStruct(items)                == [tag |-> "Struct", items |-> items]
MDict(pairs, key_sig, val_sig) ==
    [tag |-> "Dict", pairs |-> pairs, key_sig |-> key_sig, val_sig |-> val_sig]
MVariant(inner)               == [tag |-> "Variant", inner |-> inner]

(***************************************************************************)
(* Result<MessageItem, LabeledError>, and the panic of an unwrap()         *)
(***************************************************************************)
EncodeOk(item) == [ok |-> TRUE, item |-> item]
EncodeErr(error, label) ==
    [ok |-> FALSE, panic |-> FALSE, error |-> error, label |-> label]
Panic(msg) == [ok |-> FALSE, panic |-> TRUE, error |-> msg, label |-> <<>>]

\* try_convert!: the error of a failed conversion names the expected type
try_convert(expected_type, err) ==
    EncodeErr(<<"Failed to convert value to the D-Bus type", expected_type>>, <<err>>)

(***************************************************************************)
(* The validation done by the dbus crate in Path::new, Signature::new and  *)
(* Signature::from (which unwraps): the D-Bus rules for object paths and   *)
(* for signatures of complete types, over the characters of the model.     *)
(***************************************************************************)
NameChars == {"0", "1", "2", "3", "4", "5", "6", "7", "8", "9",
              "a", "b", "s", "v", "x", "y", "_"}

PathIsValid(val) ==
    /\ val # <<>>
    /\ Head(val) = "/"
    /\ \A i \in 2..Len(val) :
          \/ val[i] \in NameChars
          \/ val[i] = "/" /\ val[i - 1] # "/" /\ i < Len(val)

RECURSIVE TypeIsComplete(_)
\* a complete type: no empty struct, a dict entry only as the element of an
\* array and with a basic type as its key
TypeIsComplete(t) ==
    CASE t.tag = "Array" ->
            IF t.content.tag = "DictEntry"
            THEN /\ t.content.key \in (ScalarTypes \ {Variant})
                 /\ TypeIsComplete(t.content.val)
            ELSE TypeIsComplete(t.content)
      [] t.tag = "Struct" ->
            /\ t.types # <<>>
            /\ \A i \in 1..Len(t.types) : TypeIsComplete(t.types[i])
      [] t.tag = "DictEntry" -> FALSE
      [] OTHER -> TRUE

SignatureIsValid(val) ==
    LET r == parse_all(val)
    IN  r.ok /\ \A i \in 1..Len(r.out) : TypeIsComplete(r.out[i])

(***************************************************************************)
(* f64::from_str, for the texts of the model: an optional sign and then    *)
(* digits, "inf" or "nan".  The value is kept as the sign and the text     *)
(* read; binary rounding is not modelled.                                  *)
(***************************************************************************)
f64_from_str(text) ==
    LET signed == text # <<>> /\ Head(text) \in {"+", "-"}
        body   == IF signed THEN Tail(text) ELSE text
        neg    == signed /\ Head(text) = "-"
    IN  IF body # <<>> /\ \A i \in 1..Len(body) : IsDigit(body[i])
        THEN LET r == from_str_digits(body, <<0, 0, 0, 0>>, FALSE, UInt64)
             IN  IF r.ok THEN [ok |-> TRUE, val |-> [class |-> "finite", neg |-> neg, mag |-> r.val.mag]]
                 ELSE [ok |-> TRUE, val |-> [class |-> "above 2^64", neg |-> neg, mag |-> <<>>]]
        ELSE IF body \in {<<"i", "n", "f">>, <<"n", "a", "n">>}
        THEN [ok |-> TRUE, val |-> [class |-> IF Head(body) = "i" THEN "inf" ELSE "nan",
                                    neg |-> neg, mag |-> <<>>]]
        ELSE [ok |-> FALSE, err |-> "invalid float literal"]


(***************************************************************************)
(* to_message_item(value, expected_type): the match of convert.rs, its     *)
(* arms in order, the first that matches deciding the result               *)
(***************************************************************************)
RECURSIVE to_message_item(_, _)
RECURSIVE encode_items(_, _, _)
RECURSIVE encode_zip(_, _, _)
RECURSIVE encode_pairs(_, _, _, _)

\* vals.iter().map(|content| to_message_item(content, Some(content_type)))
\*     .collect::<Result<Vec<MessageItem>, _>>(): the first error ends it
encode_items(vals, content_type, items) ==
    IF vals = <<>> THEN [ok |-> TRUE, items |-> items]
    ELSE LET r == to_message_item(Head(vals), content_type)
         IN  IF r.ok THEN encode_items(Tail(vals), content_type, Append(items, r.item))
             ELSE r

\* mutant: the struct's elements are all encoded against its first type
encode_zip_first_type(vals, types, items) ==
    IF vals = <<>> \/ types = <<>> THEN [ok |-> TRUE, items |-> items]
    ELSE LET r == to_message_item(Head(vals), Head(types))
         IN  IF r.ok THEN encode_zip(Tail(vals), types, Append(items, r.item))
             ELSE r

\* vals.iter().zip(types).map(|(content, type)| to_message_item(content, Some(type)))
\*     .collect::<Result<Vec<MessageItem>, _>>()
encode_zip(vals, types, items) ==
    IF vals = <<>> \/ types = <<>> THEN [ok |-> TRUE, items |-> items]
    ELSE LET r == to_message_item(Head(vals), Head(types))
         IN  IF r.ok THEN encode_zip(Tail(vals), Tail(types), Append(items, r.item))
             ELSE r

\* mutant: an entry whose key or value fails to encode is left out
encode_pairs_skips_failed(entries, key_type, val_type, pairs) ==
    IF entries = <<>> THEN [ok |-> TRUE, pairs |-> pairs]
    ELSE LET key_message_item == to_message_item(VString(Head(entries)[1]), key_type)
             val_message_item == to_message_item(Head(entries)[2], val_type)
         IN  encode_pairs(Tail(entries), key_type, val_type,
                 IF key_message_item.ok /\ val_message_item.ok
                 THEN Append(pairs, <<key_message_item.item, val_message_item.item>>)
                 ELSE pairs)

\* val.iter().map(|(key, val)| ...).collect::<Result<Vec<_>, LabeledError>>():
\* the key goes first, as a string Value, then the value
encode_pairs(entries, key_type, val_type, pairs) ==
    IF entries = <<>> THEN [ok |-> TRUE, pairs |-> pairs]
    ELSE LET key_as_value     == VString(Head(entries)[1])
             key_message_item == to_message_item(key_as_value, key_type)
         IN  IF ~key_message_item.ok THEN key_message_item
             ELSE LET val_message_item == to_message_item(Head(entries)[2], val_type)
                  IN  IF ~val_message_item.ok THEN val_message_item
                      ELSE encode_pairs(Tail(entries), key_type, val_type,
                               Append(pairs, <<key_message_item.item, val_message_item.item>>))

\* the tag of the MessageItem that carries an integer of the type
IntItemTag(type) == type.tag

\* Ok(MessageItem::T(try_convert!(T::try_from(*val))))
int_arm(val, type) ==
    LET r == try_from(val, type)
    IN  IF r.ok THEN EncodeOk(MInt(IntItemTag(type), r.val))
        ELSE try_convert(type, r.err)

\* Ok(MessageItem::T(try_convert!(T::from_str(&val[..]))))
int_from_str_arm(val, type) ==
    LET r == from_str(val, type)
    IN  IF r.ok THEN EncodeOk(MInt(IntItemTag(type), r.val))
        ELSE try_convert(type, r.err)

\* mutant: a value of any kind with no default type is boxed as it is
variant_arm_boxes_any(other_value) ==
    LET r == to_message_item(other_value, None)
    IN  IF r.ok THEN EncodeOk(MVariant(r.item))
        ELSE EncodeOk(MVariant([tag |-> "Invalid"]))

\* (other_value, Some(DbusType::Variant))
variant_arm(other_value) ==
    LET r == to_message_item(other_value, None)
    IN  IF r.ok THEN EncodeOk(MVariant(r.item)) ELSE r

\* mutant: a list with no expected type becomes an array of strings
default_type_list_of_strings(value) ==
    CASE value.kind = "string" -> String
      [] value.kind = "int"    -> Int64
      [] value.kind = "float"  -> Double
      [] value.kind = "bool"   -> Boolean
      [] value.kind = "list"   -> Array(String)
      [] value.kind = "record" -> Array(DictEntry(String, Variant))
      [] OTHER                 -> None

\* the automatic types of the arms with no type expectation
default_type(value) ==
    CASE value.kind = "string" -> String
      [] value.kind = "int"    -> Int64
      [] value.kind = "float"  -> Double
      [] value.kind = "bool"   -> Boolean
      [] value.kind = "list"   -> Array(Variant)
      [] value.kind = "record" -> Array(DictEntry(String, Variant))
      [] OTHER                 -> None

\* mutant: an Int where a Double is expected is converted to a Double
incompatible_arm_int_as_double(other_value, expectation) ==
    IF other_value.kind = "int" /\ expectation = Double
    THEN EncodeOk(MDouble([class |-> "finite", neg |-> other_value.int.neg,
                           mag |-> other_value.int.mag]))
    ELSE EncodeErr(<<"can not be converted to the D-Bus type", get_type(other_value), expectation>>,
                   <<"expected here", expectation>>)

\* (other_value, Some(expectation)): value not compatible with expected type
incompatible_arm(other_value, expectation) ==
    EncodeErr(<<"can not be converted to the D-Bus type", get_type(other_value), expectation>>,
              <<"expected here", expectation>>)

\* (Value::Binary, Some(Array(Byte))): one MessageItem::Byte for each byte
binary_arm(val, type) ==
    EncodeOk(MArray([i \in 1..Len(val) |-> MInt("Byte", val[i])], stringify(type)))

to_message_item(value, expected_type) ==
    LET k == value.kind
        e == expected_type
    IN
    IF k = "bool" /\ e = Boolean THEN EncodeOk(MBool(value.bool))
      \* strings and specialized strings
      ELSE IF k = "string" /\ e = String THEN EncodeOk(MString("Str", value.string))
      ELSE IF k = "string" /\ e = ObjectPath THEN
            IF PathIsValid(value.string) THEN EncodeOk(MString("ObjectPath", value.string))
            ELSE try_convert(e, "invalid object path")
      ELSE IF k = "string" /\ e = Signature THEN
            IF SignatureIsValid(value.string) THEN EncodeOk(MString("Signature", value.string))
            ELSE try_convert(e, "invalid signature")
      \* signed ints
      ELSE IF k = "int" /\ e = Int64 THEN EncodeOk(MInt("Int64", value.int))
      ELSE IF k = "int" /\ e \in {Int32, Int16} THEN int_arm(value.int, e)
      \* unsigned ints
      ELSE IF k = "int" /\ e \in {UInt64, UInt32, UInt16, Byte} THEN int_arm(value.int, e)
      \* ints from string
      ELSE IF k = "string" /\ e \in {Int64, Int32, Int16, UInt64, UInt32, UInt16, Byte} THEN
            int_from_str_arm(value.string, e)
      \* float
      ELSE IF k = "float" /\ e = Double THEN EncodeOk(MDouble(value.float))
      ELSE IF k = "string" /\ e = Double THEN
            LET r == f64_from_str(value.string)
            IN  IF r.ok THEN EncodeOk(MDouble(r.val))
                ELSE try_convert(e, r.err)
      \* binary
      ELSE IF k = "binary" /\ e.tag = "Array" /\ e.content = Byte THEN binary_arm(value.binary, e)
      \* list/array
      ELSE IF k = "list" /\ e.tag = "Array" THEN
            IF ~TypeIsComplete(e) THEN Panic("Signature::from: invalid signature")
            ELSE LET r == encode_items(value.vals, e.content, <<>>)
                 IN  IF r.ok THEN EncodeOk(MArray(r.items, stringify(e))) ELSE r
      \* struct
      ELSE IF k = "list" /\ e.tag = "Struct" THEN
            IF Len(value.vals) # Len(e.types)
            THEN EncodeErr(<<"expected struct with element(s)", Len(e.types), e.types>>,
                           <<"this list has element(s) instead", Len(value.vals)>>)
            ELSE LET r == encode_zip(value.vals, e.types, <<>>)
                 IN  IF r.ok THEN EncodeOk(MStruct(r.items)) ELSE r
      \* record/dict
      ELSE IF k = "record" /\ e.tag = "Array" /\ e.content.tag = "DictEntry" THEN
            LET key_type == e.content.key
                val_type == e.content.val
            IN  IF ~TypeIsComplete(key_type) \/ ~TypeIsComplete(val_type)
                THEN Panic("Signature::from: invalid signature")
                ELSE LET r == encode_pairs(value.record, key_type, val_type, <<>>)
                     IN  IF ~r.ok THEN r
                         \* MessageItemDict::new makes the signature a{key value}
                         ELSE IF ~TypeIsComplete(e)
                         THEN Panic("Signature::from: invalid signature")
                         ELSE EncodeOk(MDict(r.pairs, stringify(key_type), stringify(val_type)))
      \* variant - use automatic type
      ELSE IF e = Variant THEN variant_arm(value)
      \* value not compatible with expected type
      ELSE IF e # None THEN incompatible_arm(value, e)
      \* automatic types (with no type expectation)
      ELSE IF e = None /\ k \in {"string", "int", "float", "bool", "list", "record"} THEN
            to_message_item(value, default_type(value))
      \* no expected type, but can't handle this type
      ELSE
            EncodeErr(<<"can not use values of type in D-Bus calls", get_type(value)>>,
                      <<"use a supported type here instead">>)


(***************************************************************************)
(* A D-Bus argument as from_refarg reads it (dyn RefArg).  It has the      *)
(* shape of a MessageItem; an array of dict entries is a Dict, and the     *)
(* tags DictEntry, UnixFd and Invalid can occur as well.                   *)
(***************************************************************************)
MDictEntry(key, val) == [tag |-> "DictEntry", key |-> key, val |-> val]
MInvalid             == [tag |-> "Invalid"]

\* RefArg::arg_type
arg_type(r) ==
    CASE r.tag = "Dict" -> "Array"
      [] r.tag = "Bool" -> "Boolean"
      [] r.tag = "Str"  -> "String"
      [] OTHER          -> r.tag

\* RefArg::signature, as far as from_refarg reads it: of an array
signature(r) ==
    IF r.tag = "Dict" THEN <<"a", "{">> \o r.key_sig \o r.val_sig \o <<"}">>
    ELSE r.sig

\* RefArg::as_iter: the arguments inside a container; a dictionary gives
\* its keys and values in turn
RECURSIVE flatten_pairs(_)
flatten_pairs(pairs) ==
    IF pairs = <<>> THEN <<>>
    ELSE <<Head(pairs)[1], Head(pairs)[2]>> \o flatten_pairs(Tail(pairs))

as_iter(r) ==
    CASE r.tag = "Dict"    -> flatten_pairs(r.pairs)
      [] r.tag = "Variant" -> <<r.inner>>
      [] OTHER             -> r.items

\* RefArg::as_str is Some for the three kinds of string only
as_str_is_some(r) == r.tag \in {"Str", "ObjectPath", "Signature"}

\* mutant: an integer is read through 32 bits and stops at the limits of i32
as_i64_through_i32(r) ==
    IF r.tag = "Bool" THEN (IF r.bool THEN Small(1) ELSE Small(0))
    ELSE IF InRange(r.int, Int32) THEN r.int
    ELSE IF r.int.neg THEN Num(TRUE, MinMag(Int32)) ELSE Num(FALSE, MaxMag(Int32))

\* RefArg::as_i64 of a boolean or an integer argument
as_i64(r) ==
    IF r.tag = "Bool" THEN (IF r.bool THEN Small(1) ELSE Small(0)) ELSE r.int

\* Record::insert: a key that is present keeps its place and gets the value
RECURSIVE record_insert(_, _, _)
record_insert(record, key, val) ==
    IF record = <<>> THEN <<<<key, val>>>>
    ELSE IF Head(record)[1] = key THEN <<<<key, val>>>> \o Tail(record)
    ELSE <<Head(record)>> \o record_insert(Tail(record), key, val)

DecodeOk(v)    == [ok |-> TRUE, value |-> v]
DecodeErr(msg) == [ok |-> FALSE, err |-> msg]

(***************************************************************************)
(* from_refarg                                                             *)
(***************************************************************************)
RECURSIVE from_refarg(_)
RECURSIVE decode_dict(_, _)
RECURSIVE decode_elements(_)

\* mutant: a key that is an integer is kept, as its decimal text
decode_dict_keeps_int_keys(iter, record) ==
    IF iter = <<>> THEN DecodeOk(VRecord(record))
    ELSE IF Len(iter) = 1 THEN decode_dict(Tail(iter), record)
    ELSE LET key == iter[1]
             val == iter[2]
             more == Tail(Tail(iter))
             r == from_refarg(val)
         IN  IF as_str_is_some(key) \/ "int" \in DOMAIN key
             THEN IF r.ok
                  THEN decode_dict(more, record_insert(record,
                           IF as_str_is_some(key) THEN key.string ELSE to_string(key.int),
                           r.value))
                  ELSE r
             ELSE decode_dict(more, record)

\* the while-let loop of the dictionary arm over the iterator
decode_dict(iter, record) ==
    IF iter = <<>> THEN DecodeOk(VRecord(record))
    ELSE IF Len(iter) = 1 THEN decode_dict(Tail(iter), record)
    ELSE LET key == iter[1]
             val == iter[2]
             more == Tail(Tail(iter))
         IN  IF as_str_is_some(key)
             THEN LET r == from_refarg(val)
                  IN  IF r.ok THEN decode_dict(more, record_insert(record, key.string, r.value))
                      ELSE r
             ELSE decode_dict(more, record)

\* mutant: the elements after one that fails to decode are lost with it
decode_elements_stops_at_error(iter) ==
    IF iter = <<>> THEN <<>>
    ELSE LET r == from_refarg(Head(iter))
         IN  IF r.ok THEN <<r.value>> \o decode_elements(Tail(iter)) ELSE <<>>

\* .flat_map(|v| from_refarg(v, span)).collect(): an Err gives no element
decode_elements(iter) ==
    IF iter = <<>> THEN <<>>
    ELSE LET r == from_refarg(Head(iter))
         IN  (IF r.ok THEN <<r.value>> ELSE <<>>) \o decode_elements(Tail(iter))

\* mutant: a variant is decoded like a struct of one field, to a list
decode_variant_as_list(r) == DecodeOk(VList(decode_elements(as_iter(r))))

\* let inner = refarg.as_iter().unwrap().next().unwrap();
\* return from_refarg(inner, span)
decode_variant(r) == from_refarg(as_iter(r)[1])

\* mutant: a byte array is decoded like any other array
byte_array_as_list(r) == VList(decode_elements(as_iter(r)))

\* dbus::arg::cast::<Vec<u8>>: the bytes of an array of signature "ay"
byte_array(r) == VBinary([i \in 1..Len(r.items) |-> r.items[i].int])

\* Value::string(refarg.as_u64().unwrap().to_string(), span)
uint64_as_string(r) == VString(to_string(r.int))

from_refarg(r) ==
    LET t == arg_type(r)
    IN  CASE t = "Array" ->
               IF SubSeq(signature(r), 1, 2) = <<"a", "{">>
               THEN decode_dict(as_iter(r), <<>>)
               ELSE IF signature(r) = <<"a", "y">>
               THEN DecodeOk(byte_array(r))
               ELSE DecodeOk(VList(decode_elements(as_iter(r))))
          [] t = "Variant" -> decode_variant(r)
          [] t = "Boolean" -> DecodeOk(VBool(as_i64(r) # Small(0)))
          [] t \in {"String", "ObjectPath", "Signature"} -> DecodeOk(VString(r.string))
          [] t \in {"Byte", "Int16", "UInt16", "Int32", "UInt32", "Int64", "UnixFd"} ->
               DecodeOk(VInt(as_i64(r)))
          [] t = "UInt64" -> DecodeOk(uint64_as_string(r))
          [] t = "Double" -> DecodeOk(VFloat(r.float))
          [] t = "Struct" -> DecodeOk(VList(decode_elements(as_iter(r))))
          [] t = "DictEntry" ->
               DecodeErr("Encountered dictionary entry outside of dictionary")
          [] t = "Invalid" -> DecodeErr("Encountered invalid D-Bus value")


(***************************************************************************)
(* from_message: the arguments of a Message in order; the first that fails *)
(* to decode ends it with its error (the ? of the loop)                    *)
(***************************************************************************)
MessageOk(out) == [ok |-> TRUE, values |-> out]

\* a dbus::Message, as far as from_message reads it: its arguments
Message(args) == [args |-> args]
iter_init(message) == message.args

RECURSIVE from_message_loop(_, _)

\* mutant: an argument that fails to decode is left out of the result
from_message_loop_skips_errors(iter, out) ==
    IF iter = <<>> THEN MessageOk(out)
    ELSE LET r == from_refarg(Head(iter))
         IN  from_message_loop(Tail(iter), IF r.ok THEN Append(out, r.value) ELSE out)

\* for refarg in message.iter_init() { out.push(from_refarg(&refarg, span)?); }
from_message_loop(iter, out) ==
    IF iter = <<>> THEN MessageOk(out)
    ELSE LET r == from_refarg(Head(iter))
         IN  IF r.ok THEN from_message_loop(Tail(iter), Append(out, r.value))
             ELSE r

from_message(message) == from_message_loop(iter_init(message), <<>>)

(***************************************************************************)
(* Inputs of the conversions                                               *)
(***************************************************************************)
\* m + 1 and m - 1 on magnitudes (m + 1 stays below 2^64, m - 1 above 0)
MagInc(m) ==
    IF m[1] < TopLimb THEN <<m[1] + 1, m[2], m[3], m[4]>>
    ELSE IF m[2] < TopLimb THEN <<0, m[2] + 1, m[3], m[4]>>
    ELSE IF m[3] < TopLimb THEN <<0, 0, m[3] + 1, m[4]>>
    ELSE IF m[4] < TopLimb THEN <<0, 0, 0, m[4] + 1>>
    ELSE m
MagDec(m) ==
    IF m[1] > 0 THEN <<m[1] - 1, m[2], m[3], m[4]>>
    ELSE IF m[2] > 0 THEN <<TopLimb, m[2] - 1, m[3], m[4]>>
    ELSE IF m[3] > 0 THEN <<TopLimb, TopLimb, m[3] - 1, m[4]>>
    ELSE IF m[4] > 0 THEN <<TopLimb, TopLimb, TopLimb, m[4] - 1>>
    ELSE m

NumSucc(n) == IF n.neg THEN Num(TRUE, MagDec(n.mag)) ELSE Num(FALSE, MagInc(n.mag))
NumPred(n) ==
    IF n.neg \/ n.mag = <<0, 0, 0, 0>> THEN Num(TRUE, MagInc(n.mag))
    ELSE Num(FALSE, MagDec(n.mag))

RECURSIVE Around(_, _)
\* the numbers at most d away from n
Around(n, d) ==
    IF d = 0 THEN {n}
    ELSE {n} \cup Around(NumSucc(n), d - 1) \cup Around(NumPred(n), d - 1)

\* zero and the least and greatest value of every integer type
Limits ==
    {Small(0)} \cup { Num(FALSE, MaxMag(t)) : t \in IntegerTypes }
               \cup { Num(TRUE, MinMag(t)) : t \in {Int16, Int32, Int64} }
NearLimits == UNION { Around(b, MaxDelta) : b \in Limits }

\* a Value::Int holds an i64
IntInputs == { n \in NearLimits : InRange(n, Int64) }

\* 2^64, one more than a magnitude can hold
TwoTo64Text ==
    <<"1", "8", "4", "4", "6", "7", "4", "4", "0", "7",
      "3", "7", "0", "9", "5", "5", "1", "6", "1", "6">>

\* numerals: plain, with a "+", with a leading zero, and too large for u64
NumeralTexts ==
    { to_string(n) : n \in NearLimits }
    \cup { <<"+">> \o to_string(n) : n \in { b \in Limits : ~b.neg } }
    \cup { <<"0">> \o to_string(n) : n \in { b \in Limits : ~b.neg } }
    \cup { <<"-", "0">> \o mag_to_string(n.mag) : n \in Limits }
    \cup { TwoTo64Text, <<"-">> \o TwoTo64Text }

\* texts that are no numeral, among them object paths and signatures
OtherTexts ==
    { <<>>, <<"+">>, <<"-">>, <<"x">>, <<"1", "x">>, <<"-", "-", "1">>,
      <<"+", "-", "1">>, <<" ", "1">>, <<"1", " ">>, <<"i", "n", "f">>,
      <<"/">>, <<"/", "a">>, <<"/", "a", "/">>,
      <<"a", "{", "s", "v", "}">>, <<"(", ")">> }

StringInputs == NumeralTexts \cup OtherTexts

FloatInputs ==
    { [class |-> "finite", neg |-> FALSE, mag |-> <<1, 0, 0, 0>>],
      [class |-> "inf", neg |-> TRUE, mag |-> <<>>] }

ByteInputs == { Small(0), Small(255) }

BinaryInputs == SeqsUpTo(ByteInputs, MaxBinLen)

ScalarValues ==
    { VBool(b) : b \in BOOLEAN }
    \cup { VInt(n) : n \in IntInputs }
    \cup { VString(t) : t \in StringInputs }
    \cup { VFloat(f) : f \in FloatInputs }
    \cup { VBinary(b) : b \in BinaryInputs }
    \cup { VNothing }

\* the values lists and records are made of: scalars of every kind, and a
\* list and a record to nest
ElementValues ==
    { VInt(Small(1)), VInt(Small(300)), VString(<<"x">>), VBinary(<<Small(7)>>),
      VList(<<VInt(Small(2)), VBinary(<<>>)>>), VList(<<VString(<<"x">>)>>),
      VRecord(<<<< <<"a">>, VInt(Small(3)) >>>>) }

RecordKeys   == { <<"a">>, <<"1">> }
RecordValues == { VInt(Small(1)), VInt(Small(300)), VString(<<"x">>), VBinary(<<Small(7)>>),
                  VList(<<VInt(Small(2))>>) }

RecordEntries == { <<k, v>> : k \in RecordKeys, v \in RecordValues }

\* records of at most two entries with distinct keys
RecordInputs ==
    { <<>> }
    \cup { <<e>> : e \in RecordEntries }
    \cup { r \in [1..2 -> RecordEntries] : r[1][1] # r[2][1] }

Values ==
    ScalarValues
    \cup { VList(l) : l \in SeqsUpTo(ElementValues, MaxListLen) }
    \cup { VRecord(r) : r \in RecordInputs }

\* the scalar types the larger expected types are built from
ConvScalars == { Byte, Int32, String, Variant }

\* no type, every scalar type, every tree of at most MaxTypeNodes nodes over
\* ConvScalars, a struct of three types, and the dictionaries over ConvScalars
ExpectedTypes ==
    { None } \cup ScalarTypes
    \cup TypesUpTo(ConvScalars, MaxTypeNodes)
    \cup { Struct(<<String, Int32, Byte>>) }
    \cup { Array(DictEntry(k, v)) : k \in ConvScalars, v \in ConvScalars }

\* arguments read from a reply that no encoding of the model produces
WireArgs ==
    { MInvalid,
      MDictEntry(MString("Str", <<"a">>), MInt("Int32", Small(1))),
      MInt("UnixFd", Small(3)),
      MInt("UInt64", Num(FALSE, MaxMag(UInt64))),
      MVariant(MVariant(MString("Str", <<"x">>))),
      MArray(<<MInt("Byte", Small(1)), MInt("Byte", Small(2))>>, <<"a", "y">>),
      MArray(<<MInt("Int32", Small(1)), MInvalid, MInt("Int32", Small(2))>>, <<"a", "i">>),
      MArray(<<MVariant(MInt("Byte", Small(1))), MVariant(MVariant(MInvalid))>>, <<"a", "v">>),
      MStruct(<<MBool(TRUE), MDouble([class |-> "finite", neg |-> FALSE, mag |-> <<1, 0, 0, 0>>])>>),
      MStruct(<<MInvalid, MString("Str", <<"x">>)>>),
      MDict(<< <<MInt("Int32", Small(1)), MString("Str", <<"x">>)>>,
               <<MInt("Int32", Small(2)), MString("Str", <<"y">>)>> >>,
            <<"i">>, <<"s">>),
      MDict(<< <<MInt("Int32", Small(1)), MInvalid>> >>, <<"i">>, <<"v">>),
      MDict(<< <<MString("Str", <<"a">>), MVariant(MBool(FALSE))>>,
               <<MString("Str", <<"b">>), MVariant(MInvalid)>> >>,
            <<"s">>, <<"v">>),
      MDict(<< <<MString("ObjectPath", <<"/", "b">>), MInt("Int32", Small(2))>>,
               <<MString("ObjectPath", <<"/", "a">>), MInt("Int32", Small(1))>> >>,
            <<"o">>, <<"i">>) }

\* the replies: at most MaxReplyLen arguments, decodable or not
Replies == { Message(args) : args \in SeqsUpTo(WireArgs, MaxReplyLen) }

(***************************************************************************)
(* The conversions as a state machine: a Value and an expected type are    *)
(* drawn and encoded, and the item that was written is read back; or an    *)
(* argument of a reply is drawn and decoded.                               *)
(***************************************************************************)
InitConvert ==
    /\ \/ /\ host_value \in Values
          /\ expected \in ExpectedTypes
          /\ wire_arg = NoResult
          /\ reply = NoResult
       \/ /\ host_value = NoResult
          /\ expected = NoResult
          /\ wire_arg \in WireArgs
          /\ reply = NoResult
       \/ /\ host_value = NoResult
          /\ expected = NoResult
          /\ wire_arg = NoResult
          /\ reply \in Replies
    /\ input = <<>> /\ ts = <<>>
    /\ ops = <<>>
    /\ result = NoResult
    /\ NoClient
    /\ NoPattern

\* to_message_item(value, expected_type); the item of an Ok is what the
\* other side of the connection reads
ToMessageItem ==
    /\ ops = <<>>
    /\ host_value # NoResult
    /\ result' = to_message_item(host_value, expected)
    /\ wire_arg' = IF result'.ok THEN result'.item ELSE wire_arg
    /\ ops' = <<"to_message_item">>
    /\ UNCHANGED <<host_value, expected, reply, gram, cli, pat>>

\* from_refarg(refarg, span)
FromRefarg ==
    /\ ops \in {<<>>, <<"to_message_item">>}
    /\ wire_arg # NoResult
    /\ result' = from_refarg(wire_arg)
    /\ ops' = Append(ops, "from_refarg")
    /\ UNCHANGED <<host_value, expected, wire_arg, reply, gram, cli, pat>>

\* from_message(message, span)
FromMessage ==
    /\ ops = <<>>
    /\ reply # NoResult
    /\ result' = from_message(reply)
    /\ ops' = <<"from_message">>
    /\ UNCHANGED <<conv, gram, cli, pat>>

NextConvert == ToMessageItem \/ FromRefarg \/ FromMessage

SpecConvert == InitConvert /\ [][NextConvert]_vars


(***************************************************************************)
(* What the claims about the conversions speak of                          *)
(***************************************************************************)
Encoded == ops # <<>> /\ ops[1] = "to_message_item"
JustEncoded == ops = <<"to_message_item">>
ReadBack == ops = <<"to_message_item", "from_refarg">>

\* an Err(LabeledError): no item, and no panic
IsEncodeErr(r) == DOMAIN r = {"ok", "panic", "error", "label"} /\ ~r.ok /\ ~r.panic

\* the ranges of the integer types by their widths: m < 2^bits on magnitudes
BelowPow2(m, bits) ==
    \A i \in 1..4 :
        IF 16 * i <= bits THEN TRUE
        ELSE IF 16 * (i - 1) >= bits THEN m[i] = 0
        ELSE m[i] < 2^(bits - 16 * (i - 1))
IsPow2(m, bits) ==
    \A i \in 1..4 : m[i] = (IF 16 * (i - 1) <= bits /\ bits < 16 * i
                            THEN 2^(bits - 16 * (i - 1)) ELSE 0)
FitsUnsigned(n, bits) == ~n.neg /\ BelowPow2(n.mag, bits)
FitsSigned(n, bits) ==
    IF n.neg THEN BelowPow2(n.mag, bits - 1) \/ IsPow2(n.mag, bits - 1)
    ELSE BelowPow2(n.mag, bits - 1)
Fits(n, type) ==
    CASE type = Byte   -> FitsUnsigned(n, 8)
      [] type = Int16  -> FitsSigned(n, 16)
      [] type = UInt16 -> FitsUnsigned(n, 16)
      [] type = Int32  -> FitsSigned(n, 32)
      [] type = UInt32 -> FitsUnsigned(n, 32)
      [] type = Int64  -> FitsSigned(n, 64)
      [] type = UInt64 -> FitsUnsigned(n, 64)

(***************************************************************************)
(* C5: encoding an Int v against an integer wire type T succeeds, with an  *)
(* item of type T and the same value, if and only if v is in the range of  *)
(* T; otherwise it is an EncodeError, and the value never wraps.           *)
(***************************************************************************)
C5_IntChecked ==
    (JustEncoded /\ host_value.kind = "int" /\ expected \in IntegerTypes) =>
        IF Fits(host_value.int, expected)
        THEN result = EncodeOk(MInt(expected.tag, host_value.int))
        ELSE IsEncodeErr(result)

\* 2^31, one more than i32::MAX, was refused as an Int32
C5_Witness ==
    /\ JustEncoded
    /\ host_value = VInt(Num(FALSE, <<0, HalfLimb, 0, 0>>))
    /\ expected = Int32
    /\ IsEncodeErr(result)

(***************************************************************************)
(* Decimal numerals, compared as texts                                     *)
(***************************************************************************)
RECURSIVE StripZeros(_)
StripZeros(d) == IF Len(d) > 1 /\ Head(d) = "0" THEN StripZeros(Tail(d)) ELSE d

\* a <= b for two numerals without leading zeros
DecLE(a, b) ==
    \/ Len(a) < Len(b)
    \/ /\ Len(a) = Len(b)
       /\ \/ a = b
          \/ \E i \in 1..Len(a) :
                /\ DigitValue(a[i]) < DigitValue(b[i])
                /\ \A j \in 1..(i - 1) : a[j] = b[j]

U64MaxText == <<"1", "8", "4", "4", "6", "7", "4", "4", "0", "7", "3", "7", "0", "9", "5", "5", "1", "6", "1", "5">>
MinusOneText == <<"-", "1">>

\* the greatest value of each type, and the magnitude of the least, in decimal
DecMax(type) ==
    CASE type = Byte   -> <<"2", "5", "5">>
      [] type = Int16  -> <<"3", "2", "7", "6", "7">>
      [] type = UInt16 -> <<"6", "5", "5", "3", "5">>
      [] type = Int32  -> <<"2", "1", "4", "7", "4", "8", "3", "6", "4", "7">>
      [] type = UInt32 -> <<"4", "2", "9", "4", "9", "6", "7", "2", "9", "5">>
      [] type = Int64  -> <<"9", "2", "2", "3", "3", "7", "2", "0", "3", "6", "8", "5", "4", "7", "7", "5", "8", "0", "7">>
      [] type = UInt64 -> U64MaxText
DecMin(type) ==
    CASE type = Int16  -> <<"3", "2", "7", "6", "8">>
      [] type = Int32  -> <<"2", "1", "4", "7", "4", "8", "3", "6", "4", "8">>
      [] type = Int64  -> <<"9", "2", "2", "3", "3", "7", "2", "0", "3", "6", "8", "5", "4", "7", "7", "5", "8", "0", "8">>
      [] OTHER         -> <<"0">>

HasSign(text)   == text # <<>> /\ Head(text) \in {"+", "-"}
DigitsOf(text)  == IF HasSign(text) THEN Tail(text) ELSE text
IsNegative(text) == text # <<>> /\ Head(text) = "-"

\* the text is a numeral of the type: digits after an optional sign, "-"
\* for a signed type only, with a value in the range of the type
IsNumeralOf(text, type) ==
    LET d == DigitsOf(text)
    IN  /\ d # <<>>
        /\ \A i \in 1..Len(d) : IsDigit(d[i])
        /\ IsNegative(text) => type \in {Int16, Int32, Int64}
        /\ DecLE(StripZeros(d), IF IsNegative(text) THEN DecMin(type) ELSE DecMax(type))

\* the numeral as to_string writes its value: no "+", no leading zero, no "-0"
Canonical(text) ==
    LET d == StripZeros(DigitsOf(text))
    IN  IF IsNegative(text) /\ d # <<"0">> THEN <<"-">> \o d ELSE d

C7_StructPositional ==
    (JustEncoded /\ host_value.kind = "list" /\ expected.tag = "Struct") =>
        LET vals  == host_value.vals
            types == expected.types
            each  == [i \in 1..Len(vals) |->
                         IF i <= Len(types) THEN to_message_item(vals[i], types[i])
                         ELSE NoResult]
            bad   == { i \in 1..Len(vals) : ~each[i].ok }
        IN  IF Len(vals) # Len(types)
            THEN /\ IsEncodeErr(result)
                 /\ result.error = <<"expected struct with element(s)", Len(types), types>>
                 /\ result.label = <<"this list has element(s) instead", Len(vals)>>
            ELSE IF bad = {}
            THEN result = EncodeOk(MStruct([i \in 1..Len(vals) |-> each[i].item]))
            ELSE result = each[CHOOSE i \in bad : \A j \in bad : i <= j]

\* a list of two was encoded against a struct of two different types
C7_Witness ==
    /\ JustEncoded
    /\ host_value = VList(<<VString(<<"x">>), VInt(Small(300))>>)
    /\ expected = Struct(<<String, Int32>>)
    /\ result = EncodeOk(MStruct(<<MString("Str", <<"x">>), MInt("Int32", Small(300))>>))

(***************************************************************************)
(* C8, as the claim states it: a value of any kind of the host value       *)
(* model, Binary included, is accepted where a Variant is expected.        *)
(***************************************************************************)
HostKinds == {"bool", "int", "float", "string", "binary", "list", "record"}

C8_AnyValueAccepted ==
    (JustEncoded /\ expected = Variant /\ host_value.kind \in HostKinds) =>
        result.ok /\ result.item.tag = "Variant"

(***************************************************************************)
(* C8, amended: where a Variant is expected the value is encoded with no   *)
(* expected type and the result wrapped as a variant; this succeeds for a  *)
(* Bool, Int, Float or String and for a List or Record whose elements or   *)
(* values all succeed, and is an EncodeError for a Binary and for a List   *)
(* or Record that holds one.                                               *)
(***************************************************************************)
RECURSIVE HasDefaultType(_)
HasDefaultType(v) ==
    CASE v.kind \in {"bool", "int", "float", "string"} -> TRUE
      [] v.kind = "list" -> \A i \in 1..Len(v.vals) : HasDefaultType(v.vals[i])
      [] v.kind = "record" -> \A i \in 1..Len(v.record) : HasDefaultType(v.record[i][2])
      [] OTHER -> FALSE

C8_VariantWrapsUntyped ==
    (JustEncoded /\ expected = Variant /\ host_value.kind \in HostKinds) =>
        LET untyped == to_message_item(host_value, None)
        IN  IF HasDefaultType(host_value)
            THEN untyped.ok /\ result = EncodeOk(MVariant(untyped.item))
            ELSE IsEncodeErr(result) /\ result = untyped

\* a list of a nested record and an int was wrapped as a variant
C8_Witness ==
    /\ JustEncoded
    /\ expected = Variant
    /\ host_value = VList(<<VRecord(<<<< <<"a">>, VInt(Small(3)) >>>>), VInt(Small(1))>>)
    /\ result.ok
    /\ result.item.tag = "Variant"
    /\ result.item.inner.tag = "Array"

(***************************************************************************)
(* C9: with no expected type, a value is encoded as against its default    *)
(* type: String, Int64, Double, Boolean, Array(Variant) for a List and     *)
(* Array(DictEntry(String, Variant)) for a Record; so every element of an  *)
(* untyped list and every value of an untyped record is wrapped in a       *)
(* variant of its own, at every depth.                                     *)
(***************************************************************************)
DefaultKinds == {"string", "int", "float", "bool", "list", "record"}

C9_Default(v) ==
    CASE v.kind = "string" -> String
      [] v.kind = "int"    -> Int64
      [] v.kind = "float"  -> Double
      [] v.kind = "bool"   -> Boolean
      [] v.kind = "list"   -> Array(Variant)
      [] v.kind = "record" -> Array(DictEntry(String, Variant))

RECURSIVE UntypedShape(_, _)
\* item is the encoding of v with no expected type
UntypedShape(v, item) ==
    CASE v.kind = "string" -> item = MString("Str", v.string)
      [] v.kind = "int"    -> item = MInt("Int64", v.int)
      [] v.kind = "float"  -> item = MDouble(v.float)
      [] v.kind = "bool"   -> item = MBool(v.bool)
      [] v.kind = "list"   ->
            /\ item.tag = "Array"
            /\ item.sig = <<"a", "v">>
            /\ Len(item.items) = Len(v.vals)
            /\ \A i \in 1..Len(v.vals) :
                  /\ item.items[i].tag = "Variant"
                  /\ UntypedShape(v.vals[i], item.items[i].inner)
      [] v.kind = "record" ->
            /\ item.tag = "Dict"
            /\ item.key_sig = <<"s">>
            /\ item.val_sig = <<"v">>
            /\ Len(item.pairs) = Len(v.record)
            /\ \A i \in 1..Len(v.record) :
                  /\ item.pairs[i][1] = MString("Str", v.record[i][1])
                  /\ item.pairs[i][2].tag = "Variant"
                  /\ UntypedShape(v.record[i][2], item.pairs[i][2].inner)
      [] OTHER -> FALSE

C9_DefaultTypes ==
    (JustEncoded /\ expected = None /\ host_value.kind \in DefaultKinds) =>
        /\ result = to_message_item(host_value, C9_Default(host_value))
        /\ result.ok => UntypedShape(host_value, result.item)

\* an untyped list with a list inside it was encoded
C9_Witness ==
    /\ JustEncoded
    /\ expected = None
    /\ host_value = VList(<<VList(<<VString(<<"x">>)>>), VInt(Small(1))>>)
    /\ result.ok
    /\ result.item.items[1].inner.items[1] = MVariant(MString("Str", <<"x">>))

(***************************************************************************)
(* C10: a Binary b against Array(Byte) gives an array of len(b) byte items *)
(* in the order of b; a byte array read from the wire is decoded to a      *)
(* Binary and never to a List; so decoding the encoding of b gives b, the  *)
(* empty Binary included.                                                  *)
(***************************************************************************)
C10_BinaryRoundTrip ==
    /\ (Encoded /\ host_value.kind = "binary" /\ expected = Array(Byte)) =>
          LET b == host_value.binary
          IN  /\ wire_arg # NoResult
              /\ wire_arg.tag = "Array"
              /\ wire_arg.sig = <<"a", "y">>
              /\ Len(wire_arg.items) = Len(b)
              /\ \A i \in 1..Len(b) : wire_arg.items[i] = MInt("Byte", b[i])
              /\ JustEncoded => result = EncodeOk(wire_arg)
              /\ ReadBack => result = DecodeOk(host_value)
    /\ (LastOp = "from_refarg" /\ wire_arg.tag = "Array" /\ wire_arg.sig = <<"a", "y">>) =>
          result.ok /\ result.value.kind = "binary"

\* two bytes went out and came back
C10_Witness ==
    /\ ReadBack
    /\ host_value = VBinary(<<Small(0), Small(255)>>)
    /\ expected = Array(Byte)
    /\ result = DecodeOk(host_value)

(***************************************************************************)
(* C11: a Record against Array(DictEntry(K, V)) gives a dictionary of one  *)
(* pair for each entry, in the order of the record: the key, as a String   *)
(* value, encoded against K and the value encoded against V.  When a key   *)
(* or a value fails to encode there is no dictionary: the result is the    *)
(* error of the first entry that fails, its key tried before its value.    *)
(***************************************************************************)
\* the expected type is a dictionary type of D-Bus: its key type is basic
IsRecordAgainstDict ==
    /\ host_value.kind = "record"
    /\ expected.tag = "Array"
    /\ expected.content.tag = "DictEntry"
    /\ TypeIsComplete(expected)

AcceptedFor(kind, type) ==
    \/ type = Variant
    \/ kind = "bool" /\ type = Boolean
    \/ kind = "string" /\ type \in {String, ObjectPath, Signature, Double} \cup IntegerTypes
    \/ kind = "int" /\ type \in IntegerTypes
    \/ kind = "float" /\ type = Double
    \/ kind = "binary" /\ type = Array(Byte)
    \/ kind = "list" /\ type.tag \in {"Array", "Struct"}
    \/ kind = "record" /\ type.tag = "Array" /\ type.content.tag = "DictEntry"

C12_IncompatibleIsError ==
    (JustEncoded /\ expected # None /\ ~AcceptedFor(host_value.kind, expected)) =>
        /\ IsEncodeErr(result)
        /\ result.error = <<"can not be converted to the D-Bus type", host_value.kind, expected>>
        /\ wire_arg = NoResult

\* an Int was refused where a Double is expected
C12_Witness ==
    /\ JustEncoded
    /\ host_value = VInt(Small(0))
    /\ expected = Double
    /\ IsEncodeErr(result)

(***************************************************************************)
(* C13: decoding flattens variants.  Decoding a variant gives what         *)
(* decoding the argument inside it gives, and decoding any argument gives  *)
(* what decoding it with every variant taken away gives: inside a variant, *)
(* as an element of an array or a struct, as a value of a dictionary.  A   *)
(* decoded value is made of the seven kinds of host value only.            *)
(***************************************************************************)
RECURSIVE Unwrapped(_)
\* the argument with the argument inside put in the place of every variant
Unwrapped(x) ==
    CASE x.tag = "Variant" -> Unwrapped(x.inner)
      [] x.tag = "Array"   -> MArray([i \in 1..Len(x.items) |-> Unwrapped(x.items[i])], x.sig)
      [] x.tag = "Struct"  -> MStruct([i \in 1..Len(x.items) |-> Unwrapped(x.items[i])])
      [] x.tag = "Dict"    ->
            MDict([i \in 1..Len(x.pairs) |-> <<x.pairs[i][1], Unwrapped(x.pairs[i][2])>>],
                  x.key_sig, x.val_sig)
      [] OTHER -> x

RECURSIVE IsHostValue(_)
IsHostValue(v) ==
    /\ v.kind \in HostKinds
    /\ v.kind = "list" => \A i \in 1..Len(v.vals) : IsHostValue(v.vals[i])
    /\ v.kind = "record" => \A i \in 1..Len(v.record) : IsHostValue(v.record[i][2])

Decoded == LastOp = "from_refarg"

C13_VariantFlattened ==
    Decoded =>
        /\ wire_arg.tag = "Variant" => result = from_refarg(wire_arg.inner)
        /\ result = from_refarg(Unwrapped(wire_arg))
        /\ result.ok => IsHostValue(result.value)

\* a variant inside a variant was decoded to the string inside
C13_Witness ==
    /\ Decoded
    /\ wire_arg = MVariant(MVariant(MString("Str", <<"x">>)))
    /\ result = DecodeOk(VString(<<"x">>))

(***************************************************************************)
(* C14: an array of dict entries is decoded to a Record.  The pairs whose  *)
(* key is a string (the keys of a dictionary are distinct) give its        *)
(* entries, in the order of the pairs, each with its value decoded; a pair *)
(* whose key is no string gives no entry and no error.                     *)
(***************************************************************************)
HasStringKey(pair) == pair[1].tag \in {"Str", "ObjectPath", "Signature"}

C14_DictAsRecord ==
    (Decoded /\ wire_arg.tag = "Dict") =>
        LET kept == SelectSeq(wire_arg.pairs, HasStringKey)
            vals == [i \in 1..Len(kept) |-> from_refarg(kept[i][2])]
        IN  IF \A i \in 1..Len(kept) : vals[i].ok
            THEN result = DecodeOk(VRecord([i \in 1..Len(kept) |->
                                               <<kept[i][1].string, vals[i].value>>]))
            ELSE ~result.ok

\* a dictionary of two pairs with string keys became a record of two
\* entries in the same order
C14_Witness ==
    /\ Decoded
    /\ wire_arg.tag = "Dict"
    /\ wire_arg.key_sig = <<"o">>
    /\ result = DecodeOk(VRecord(<< << <<"/", "b">>, VInt(Small(2)) >>,
                                     << <<"/", "a">>, VInt(Small(1)) >> >>))

(***************************************************************************)
(* C15: an array that is no dictionary and no byte array is decoded to the *)
(* List of its decoded elements in wire order.  An element that fails to   *)
(* decode is left out, the elements after it are still there, and the      *)
(* decode of the array does not fail.                                      *)
(***************************************************************************)
DecodesOk(x) == from_refarg(x).ok

\* an array whose signature is that of a dictionary
IsDict(x) == x.tag = "Dict" \/ (x.tag = "Array" /\ SubSeq(x.sig, 1, 2) = <<"a", "{">>)

IsPlainArray(x) ==
    /\ x.tag = "Array"
    /\ x.sig # <<"a", "y">>
    /\ SubSeq(x.sig, 1, 2) # <<"a", "{">>

C15_ArrayAsList ==
    (Decoded /\ IsPlainArray(wire_arg)) =>
        LET kept == SelectSeq(wire_arg.items, DecodesOk)
        IN  result = DecodeOk(VList([i \in 1..Len(kept) |-> from_refarg(kept[i]).value]))

\* of three elements the second failed to decode, and the other two are
\* the list
C15_Witness ==
    /\ Decoded
    /\ wire_arg = MArray(<<MInt("Int32", Small(1)), MInvalid, MInt("Int32", Small(2))>>, <<"a", "i">>)
    /\ result = DecodeOk(VList(<<VInt(Small(1)), VInt(Small(2))>>))

(***************************************************************************)
(* C16, as the claim states it: a dict entry outside of a dictionary, or   *)
(* an invalid tag, anywhere in an argument (at its top, or inside an       *)
(* array, a struct, a variant or a value of a dictionary) makes the decode *)
(* of the argument, and of the reply that holds it, fail.                  *)
(***************************************************************************)
IsBadTag(x) == x.tag \in {"DictEntry", "Invalid"}

RECURSIVE HoldsBadTag(_)
HoldsBadTag(x) ==
    \/ IsBadTag(x)
    \/ x.tag = "Variant" /\ HoldsBadTag(x.inner)
    \/ x.tag \in {"Array", "Struct"} /\ \E i \in 1..Len(x.items) : HoldsBadTag(x.items[i])
    \/ x.tag = "Dict" /\ \E i \in 1..Len(x.pairs) : HoldsBadTag(x.pairs[i][2])

DecodedReply == LastOp = "from_message"

RECURSIVE Exposed(_)
Exposed(x) ==
    \/ IsBadTag(x)
    \/ x.tag = "Variant" /\ Exposed(x.inner)
    \/ x.tag = "Dict" /\ \E i \in 1..Len(x.pairs) :
                             HasStringKey(x.pairs[i]) /\ Exposed(x.pairs[i][2])

IsDecodeErr(r) ==
    /\ ~r.ok
    /\ r.err \in {"Encountered dictionary entry outside of dictionary",
                  "Encountered invalid D-Bus value"}

IsNaturalPair(v, type) ==
    \/ v.kind = "bool" /\ type = Boolean
    \/ v.kind = "int" /\ type = Int64
    \/ v.kind = "string" /\ type = String
    \/ /\ v.kind = "record"
       /\ type = Array(DictEntry(String, Int32))
       /\ \A i \in 1..Len(v.record) :
             v.record[i][2].kind = "int" /\ InRange(v.record[i][2].int, Int32)

C17_EncodeDecodeIdentity ==
    (Encoded /\ IsNaturalPair(host_value, expected)) =>
        /\ wire_arg # NoResult
        /\ ReadBack => result = DecodeOk(host_value)

\* a record of two integers went out as a{si} and came back the same
C17_Witness ==
    /\ ReadBack
    /\ host_value = VRecord(<< << <<"a">>, VInt(Small(300)) >>, << <<"1">>, VInt(Small(1)) >> >>)
    /\ expected = Array(DictEntry(String, Int32))
    /\ wire_arg.tag = "Dict"
    /\ result = DecodeOk(host_value)


(***************************************************************************)
(* The client (client.rs): call and set.  Each blocks on the connection in *)
(* send_with_reply_and_block, once for the introspection request if there  *)
(* is one and once for the method call, so each is modelled as the step up *)
(* to the first request and one step for each reply.                       *)
(***************************************************************************)
\* Option::Some (None is defined above)
Some(item) == [tag |-> "Some", item |-> item]

\* Err(LabeledError) of the client, by its label
ClientErr(label) == [ok |-> FALSE, panic |-> FALSE, error |-> label, label |-> <<>>]

(***************************************************************************)
(* introspection.rs: the Node read from the XML of an introspection reply, *)
(* its interfaces with their methods and properties                        *)
(***************************************************************************)
Node(interfaces) == [interfaces |-> interfaces]
Interface(name, methods, properties) ==
    [name |-> name, methods |-> methods, properties |-> properties]
Method(name, args)       == [name |-> name, args |-> args]
MethodArg(type, direction) == [type |-> type, direction |-> direction]
Property(name, type)     == [name |-> name, type |-> type]

\* iter().find(|x| x.name == name)
find(items, name) ==
    LET at == { i \in 1..Len(items) : items[i].name = name }
    IN  IF at = {} THEN None
        ELSE Some(items[CHOOSE i \in at : \A j \in at : i <= j])

RECURSIVE in_signature_from(_)
\* Method::in_signature: the types of the arguments of direction In, joined
in_signature_from(args) ==
    IF args = <<>> THEN <<>>
    ELSE (IF Head(args).direction = "In" THEN Head(args).type ELSE <<>>)
         \o in_signature_from(Tail(args))
in_signature(method) == in_signature_from(method.args)

get_interface(node, name) == find(node.interfaces, name)
get_method(interface, name) == find(interface.methods, name)
get_property(interface, name) == find(interface.properties, name)

\* Node::get_method_args_signature
get_method_args_signature(node, interface, method) ==
    LET i == get_interface(node, interface)
    IN  IF i = None THEN None
        ELSE LET found == get_method(i.item, method)
             IN  IF found = None THEN None ELSE Some(in_signature(found.item))

\* Node::get_property_signature
get_property_signature(node, interface, property) ==
    LET i == get_interface(node, interface)
    IN  IF i = None THEN None
        ELSE LET found == get_property(i.item, property)
             IN  IF found = None THEN None ELSE Some(found.item.type)

(***************************************************************************)
(* What the connection gives back for a request: an error of               *)
(* send_with_reply_and_block, or a reply Message; for an introspection     *)
(* request a reply whose first argument is no string, XML that is no       *)
(* Node, or the XML of a Node.                                             *)
(***************************************************************************)
SendError       == [kind |-> "error"]
WrongTypeReply  == [kind |-> "wrong type"]
BadXmlReply     == [kind |-> "bad xml"]
XmlReply(node)  == [kind |-> "xml", node |-> node]
MethodReply(message) == [kind |-> "reply", message |-> message]

\* DbusClient::introspect, once the reply is there: Result<Node, LabeledError>
introspect(response) ==
    CASE response.kind = "error"      -> ClientErr(<<"send_with_reply_and_block failed">>)
      [] response.kind = "wrong type" -> ClientErr(<<"Introspect method returned the wrong type">>)
      [] response.kind = "bad xml"    -> ClientErr(<<"Node::from_xml failed">>)
      [] response.kind = "xml"        -> [ok |-> TRUE, node |-> response.node]

\* DbusType::parse_all(&sig).map_err(...) of a signature that was found
parsed_or_err(r, context) ==
    IF r.ok THEN [ok |-> TRUE, sig |-> r.out]
    ELSE ClientErr(<<context, r.err>>)

\* if let Some(sig) = ... { parse_all } else { Err(not found) }
found_or_err(sig, not_found, context) ==
    IF sig = None THEN ClientErr(<<not_found>>)
    ELSE parsed_or_err(parse_all(sig.item), context)

\* let node = self.introspect(dest, object)?; and the lookup of the method
method_signature_of(node, interface, method) ==
    IF ~node.ok THEN node
    ELSE found_or_err(get_method_args_signature(node.node, interface, method),
                      "Method not found", "while getting method signature")

\* let node = self.introspect(dest, object)?; and the lookup of the property
property_signature_of(node, interface, property) ==
    IF ~node.ok THEN node
    ELSE found_or_err(get_property_signature(node.node, interface, property),
                      "Property not found", "while getting property signature")

\* get_method_signature_by_introspection, once the reply is there:
\* Result<Vec<DbusType>, LabeledError>
get_method_signature_by_introspection(response, interface, method) ==
    method_signature_of(introspect(response), interface, method)

\* get_property_signature_by_introspection, once the reply is there
get_property_signature_by_introspection(response, interface, property) ==
    property_signature_of(introspect(response), interface, property)

(***************************************************************************)
(* call and set, between the blocking points                               *)
(***************************************************************************)
\* the requests on the connection
IntrospectRequest == [kind |-> "Introspect"]
MethodCall(member, args) == [kind |-> "MethodCall", member |-> member, args |-> args]

\* mutant: a supplied signature that does not parse counts as none supplied
parse_supplied_ignores_failure(supplied) ==
    IF supplied = None \/ ~parse_all(supplied.item).ok THEN [ok |-> TRUE, sig |-> None]
    ELSE [ok |-> TRUE, sig |-> Some(parse_all(supplied.item).out)]

\* signature.map(|s| DbusType::parse_all(&s.item).map_err(...)).transpose()
supplied_or_err(r) ==
    IF r.ok THEN [ok |-> TRUE, sig |-> Some(r.out)]
    ELSE ClientErr(<<"in signature specified here", r.err>>)

parse_supplied(supplied) ==
    IF supplied = None THEN [ok |-> TRUE, sig |-> None]
    ELSE supplied_or_err(parse_all(supplied.item))

\* mutant: the types of the signature are taken last first
sigs_iter_reversed(valid_sig) ==
    IF valid_sig = None THEN <<>>
    ELSE [i \in 1..Len(valid_sig.item) |-> valid_sig.item[Len(valid_sig.item) + 1 - i]]

\* valid_signature.iter().flatten(): the types of the signature, if any
sigs_iter(valid_sig) == IF valid_sig = None THEN <<>> ELSE valid_sig.item

RECURSIVE append_args(_, _, _)
\* mutant: an argument that fails to encode is left out of the message
append1_skips_failed(r, args, sigs, items) ==
    append_args(Tail(args), IF sigs = <<>> THEN <<>> ELSE Tail(sigs),
                IF r.ok THEN Append(items, r.item) ELSE items)

\* message = message.append1(to_message_item(val, sig)?)
append1(r, args, sigs, items) ==
    IF r.ok
    THEN append_args(Tail(args), IF sigs = <<>> THEN <<>> ELSE Tail(sigs), Append(items, r.item))
    ELSE r

\* for (val, sig) in args.iter().zip(sigs_iter) { ... }
\* where sigs_iter goes on with None after the types of the signature
append_args(args, sigs, items) ==
    IF args = <<>> THEN [ok |-> TRUE, items |-> items]
    ELSE append1(to_message_item(Head(args), IF sigs = <<>> THEN None ELSE Head(sigs)),
                 args, sigs, items)

\* call: the arguments of the method call message
call_message(args, valid_sig) == append_args(args, sigs_iter(valid_sig), <<>>)

\* .append2(&interface.item, &property.item)
\* .append1(MessageItem::Variant(Box::new(to_message_item(...)?)))
append_variant(r, interface, property) ==
    IF r.ok
    THEN [ok |-> TRUE,
          items |-> <<MString("Str", interface), MString("Str", property), MVariant(r.item)>>]
    ELSE r

\* set: the interface, the property, and the value boxed in a variant; the
\* expected type of the value is valid_signature.as_ref().map(|s| &s[0])
set_message(interface, property, value, valid_sig) ==
    IF valid_sig # None /\ valid_sig.item = <<>>
    THEN Panic("index out of bounds")
    ELSE append_variant(
             to_message_item(value, IF valid_sig = None THEN None ELSE valid_sig.item[1]),
             interface, property)

\* the number of types that call and set compare sig.len() with
wanted_len == IF req.op = "call" THEN Len(req.args) ELSE 1

\* if let Some(sig) = &valid_signature { if sig.len() != ... { self.error(...); } }
\* the LabeledError that the statement self.error(...); builds, if any
arity_error(valid_sig) ==
    IF valid_sig # None /\ Len(valid_sig.item) # wanted_len
    THEN Some(ClientErr([expected |-> Len(valid_sig.item), got |-> wanted_len]))
    ELSE None

\* what is printed of a value that an expression statement builds and
\* drops: self.error(...) only returns the LabeledError, and nothing keeps it
dropped(err) == <<>>

\* the arguments of the method call message, from the resolved signature
method_call_message(valid_sig) ==
    IF req.op = "call" THEN call_message(req.args, valid_sig)
    ELSE set_message(req.interface, req.member, req.value, valid_sig)

\* self.conn.send_with_reply_and_block(message, ...), or the return of the
\* error of an argument
SendMessage(message) ==
    IF message.ok
    THEN /\ sent' = Append(sent, MethodCall(IF req.op = "call" THEN req.member ELSE <<"Set">>,
                                             message.items))
         /\ pc' = "call"
         /\ result' = result
    ELSE /\ sent' = sent
         /\ pc' = "done"
         /\ result' = message

\* from the resolved signature to the sending of the method call; printed
\* is what the resolution wrote to stderr
SendMethodCall(valid_sig, printed) ==
    /\ valid_signature' = valid_sig
    /\ warnings' = warnings \o printed \o dropped(arity_error(valid_sig))
    /\ SendMessage(method_call_message(valid_sig))

\* call and set up to the first request: the names are validated, the
\* signature that was supplied is parsed, and either the introspection
\* request or the method call is sent
BeginWith(supplied) ==
    /\ pc = "start"
    /\ IF ~req.valid \/ ~supplied.ok
       THEN /\ result' = IF ~req.valid THEN ClientErr(<<"this argument is incorrect">>)
                          ELSE supplied
            /\ pc' = "done"
            /\ UNCHANGED <<valid_signature, sent, warnings>>
       ELSE IF supplied.sig = None /\ req.introspect
       THEN /\ sent' = Append(sent, IntrospectRequest)
            /\ pc' = "introspect"
            /\ UNCHANGED <<valid_signature, result, warnings>>
       ELSE SendMethodCall(supplied.sig, <<>>)
    /\ UNCHANGED <<req, reply, gram, pat, host_value, expected, wire_arg>>

Begin == BeginWith(parse_supplied(req.signature))

\* mutant: the error of the lookup is returned, as with the ? operator
AfterIntrospection_propagates(r) ==
    IF r.ok
    THEN SendMethodCall(Some(r.sig), <<>>)
    ELSE /\ result' = r
         /\ pc' = "done"
         /\ UNCHANGED <<valid_signature, sent, warnings>>

\* match self.get_..._signature_by_introspection(...): Ok(sig) becomes the
\* valid_signature, Err(err) is printed as a warning
AfterIntrospection(r) ==
    SendMethodCall(IF r.ok THEN Some(r.sig) ELSE valid_signature,
                   IF r.ok THEN <<>>
                   ELSE <<(<<"Warning: D-Bus introspection failed", r.error>>)>>)

signature_by_introspection(response) ==
    IF req.op = "call"
    THEN get_method_signature_by_introspection(response, req.interface, req.member)
    ELSE get_property_signature_by_introspection(response, req.interface, req.member)

\* Ok(values) of from_message, or its error as a LabeledError
decoded_or_err(r) == IF r.ok THEN r ELSE ClientErr(<<r.err>>)

(***************************************************************************)
(* The configuration of the client, from the named arguments of a command  *)
(***************************************************************************)
\* an element of call.named: the name and the value, if one was given
Named(name, value) == [name |-> name, value |-> value]

\* v.as_bool().ok()
as_bool_ok(v) == IF v.kind = "bool" THEN Some(v.bool) ELSE None

\* Option::and_then and Option::unwrap_or
and_then_as_bool(value) == IF value = None THEN None ELSE as_bool_ok(value.item)
unwrap_or(o, default) == IF o = None THEN default ELSE o.item

\* "no-introspect" => config.introspect =
\*     !value.as_ref().and_then(|v| v.as_bool().ok()).unwrap_or(false)
no_introspect_arm(value) == ~unwrap_or(and_then_as_bool(value), FALSE)

\* one turn of for (name, value) in &call.named: the arms of the bus
\* choice and of the timeout leave config.introspect alone
config_try_from_arm(config, named) ==
    IF named.name = "no-introspect"
    THEN [config EXCEPT !.introspect = no_introspect_arm(named.value)]
    ELSE config

RECURSIVE config_try_from_loop(_, _)
config_try_from_loop(named, config) ==
    IF named = <<>> THEN config
    ELSE config_try_from_loop(Tail(named), config_try_from_arm(config, Head(named)))

\* DbusClientConfig::try_from(call): introspect is true unless an arm
\* changes it
config_try_from(named) == config_try_from_loop(named, [introspect |-> TRUE])

(***************************************************************************)
(* Inputs of the client: the calls, and what the service answers           *)
(***************************************************************************)
\* the named arguments of the command that bear on introspection: none,
\* the switch as the shell passes it (no value), and the switch with a
\* boolean value
NamedArgs ==
    { <<>>,
      <<Named("session", None)>>,
      <<Named("no-introspect", None)>>,
      <<Named("no-introspect", Some(VBool(TRUE)))>>,
      <<Named("no-introspect", Some(VBool(FALSE)))>> }

InterfaceName == <<"I">>
MethodName    == <<"M">>
PropertyName  == <<"P">>

\* the --signature option: absent, or a text that parses to no type, to one
\* type, to two types, or not at all
SuppliedSignatures ==
    { None } \cup { Some(t) : t \in { <<>>, <<"s">>, <<"i">>, <<"s", "i">>,
                                        <<"a", "y">>, <<"(">> } }

\* the values of arguments: one that only a byte array type accepts
ArgValues == { VString(<<"x">>), VInt(Small(1)), VBinary(<<Small(7)>>) }

CallRequests ==
    { [op |-> "call", valid |-> v, interface |-> InterfaceName, member |-> MethodName,
       signature |-> s, args |-> a, named |-> n,
       introspect |-> config_try_from(n).introspect] :
          v \in BOOLEAN, s \in SuppliedSignatures,
          a \in SeqsUpTo(ArgValues, MaxArgs), n \in NamedArgs }

SetRequests ==
    { [op |-> "set", valid |-> v, interface |-> InterfaceName, member |-> PropertyName,
       signature |-> s, value |-> a, named |-> n,
       introspect |-> config_try_from(n).introspect] :
          v \in BOOLEAN, s \in SuppliedSignatures, a \in ArgValues, n \in NamedArgs }

\* the arguments of the method M and the type of the property P in the
\* introspection data of a service
MemberTypes ==
    { << <<>>, <<"s">> >>,
      << <<MethodArg(<<"s">>, "In")>>, <<"i">> >>,
      << <<MethodArg(<<"i">>, "Out"), MethodArg(<<"a", "y">>, "In")>>, <<"a", "y">> >>,
      << <<MethodArg(<<"i">>, "In"), MethodArg(<<"s">>, "In")>>, <<"s", "i">> >>,
      << <<MethodArg(<<"(">>, "In")>>, <<"(">> >>,
      << <<MethodArg(<<"s">>, "In"), MethodArg(<<"{", "s">>, "In")>>, <<>> >> }

\* nodes without the interface, without the member, and with it
IntrospectNodes ==
    { Node(<<>>),
      Node(<<Interface(InterfaceName, <<Method(<<"N">>, <<>>)>>, <<Property(<<"Q">>, <<"s">>)>>)>>) }
    \cup { Node(<<Interface(<<"J">>, <<Method(MethodName, <<>>)>>, <<>>),
                  Interface(InterfaceName,
                            <<Method(<<"N">>, <<>>), Method(MethodName, m[1])>>,
                            <<Property(PropertyName, m[2])>>)>>) : m \in MemberTypes }

IntrospectResponses ==
    { SendError, WrongTypeReply, BadXmlReply } \cup { XmlReply(n) : n \in IntrospectNodes }

MethodResponses ==
    { SendError }
    \cup { MethodReply(Message(a)) :
              a \in { <<>>, <<MString("Str", <<"x">>)>>,
                      <<MInt("Int32", Small(1)), MVariant(MString("Str", <<"x">>))>>,
                      <<MString("Str", <<"x">>), MInvalid>> } }

(***************************************************************************)
(* The client as a state machine                                           *)
(***************************************************************************)
InitClient ==
    /\ req \in CallRequests \cup SetRequests
    /\ pc = "start"
    /\ valid_signature = None
    /\ sent = <<>>
    /\ warnings = <<>>
    /\ reply = NoResult
    /\ result = NoResult
    /\ ops = <<>>
    /\ input = <<>> /\ ts = <<>>
    /\ host_value = NoResult /\ expected = NoResult /\ wire_arg = NoResult
    /\ NoPattern

\* DbusClient::call, up to its first request
Call ==
    /\ req.op = "call"
    /\ Begin
    /\ ops' = Append(ops, "call")

\* DbusClient::set, up to its first request
Set ==
    /\ req.op = "set"
    /\ Begin
    /\ ops' = Append(ops, "set")

\* the introspection request returns: the signature is looked up in the
\* reply; a failure is printed as a warning and leaves no signature; then
\* the method call is encoded and sent
IntrospectReturns ==
    /\ pc = "introspect"
    /\ \E response \in IntrospectResponses :
          /\ reply' = response
          /\ AfterIntrospection(signature_by_introspection(response))
    /\ ops' = Append(ops, "introspect_returns")
    /\ UNCHANGED <<req, gram, pat, host_value, expected, wire_arg>>

\* the method call returns: call decodes the reply with from_message, set
\* returns Ok(())
MethodReturns ==
    /\ pc = "call"
    /\ \E response \in MethodResponses :
          /\ reply' = response
          /\ result' =
                IF response.kind = "error"
                THEN ClientErr(<<"send_with_reply_and_block failed">>)
                ELSE IF req.op = "set" THEN MessageOk(<<>>)
                ELSE decoded_or_err(from_message(response.message))
    /\ pc' = "done"
    /\ ops' = Append(ops, "method_returns")
    /\ UNCHANGED <<req, valid_signature, sent, warnings, gram, pat, host_value, expected, wire_arg>>

NextClient == Call \/ Set \/ IntrospectReturns \/ MethodReturns

SpecClient == InitClient /\ [][NextClient]_vars


(***************************************************************************)
(* What the claims about the client speak of                               *)
(***************************************************************************)
IsMethodCall(r) == r.kind = "MethodCall"
IsIntrospect(r) == r.kind = "Introspect"

\* Err(LabeledError) returned by the client: no values, and no panic
IsClientErr(r) == DOMAIN r = {"ok", "panic", "error", "label"} /\ ~r.ok /\ ~r.panic

\* the expected type of argument i under a signature of these types
ExpectedTypeOf(types, i) == IF i <= Len(types) THEN types[i] ELSE None

\* the arguments of call, or the value of set, each encoded against its
\* type of the signature (types is not empty for set)
EncodingsUnder(types) ==
    IF req.op = "call"
    THEN [i \in 1..Len(req.args) |-> to_message_item(req.args[i], ExpectedTypeOf(types, i))]
    ELSE <<to_message_item(req.value, ExpectedTypeOf(types, 1))>>

\* the method call that carries these encodings
MethodCallOf(encodings) ==
    IF req.op = "call"
    THEN MethodCall(req.member, [i \in 1..Len(encodings) |-> encodings[i].item])
    ELSE MethodCall(<<"Set">>, <<MString("Str", req.interface), MString("Str", req.member),
                                 MVariant(encodings[1].item)>>)

AllOk(encodings) == \A i \in 1..Len(encodings) : encodings[i].ok

(***************************************************************************)
(* C18: when a signature is supplied to call or set, no introspection      *)
(* request is ever sent, and a method call that is sent carries the        *)
(* arguments encoded against the types of that signature, in order.  If    *)
(* the supplied text does not parse, the call returns an error and nothing *)
(* at all is sent on the connection.                                       *)
(***************************************************************************)
C18_SuppliedSignatureGoverns ==
    (req.signature # None) =>
        LET types == parse_all(req.signature.item)
        IN  /\ pc # "introspect"
            /\ \A i \in 1..Len(sent) : ~IsIntrospect(sent[i])
            /\ (~types.ok /\ pc # "start") =>
                  pc = "done" /\ sent = <<>> /\ IsClientErr(result)
            /\ (types.ok /\ sent # <<>>) =>
                  /\ AllOk(EncodingsUnder(types.out))
                  /\ sent = <<MethodCallOf(EncodingsUnder(types.out))>>
                  /\ valid_signature = Some(types.out)
            /\ (types.ok /\ req.valid /\ pc # "start"
                   /\ (req.op = "set" => types.out # <<>>)
                   /\ AllOk(EncodingsUnder(types.out))) => sent # <<>>

\* call with the signature "si", introspection enabled: the method call
\* was the only request, its arguments a string and an Int32
C18_Witness ==
    /\ pc = "call"
    /\ req.op = "call"
    /\ req.introspect
    /\ req.signature = Some(<<"s", "i">>)
    /\ req.args = <<VString(<<"x">>), VInt(Small(1))>>
    /\ sent = <<MethodCall(MethodName, <<MString("Str", <<"x">>), MInt("Int32", Small(1))>>)>>

(***************************************************************************)
(* C19: call with no signature and introspection enabled sends exactly one *)
(* introspection request, and sends it before the method call.  When the   *)
(* lookup fails (the request fails, the reply is no introspection data, or *)
(* the method is not found on the interface) one warning is printed, the   *)
(* error of the lookup is not returned, and every argument is encoded with *)
(* no expected type; the method call is then sent with these arguments     *)
(* (unless one of them has no encoding, which is the error returned).      *)
(***************************************************************************)
IntrospectingCall ==
    req.op = "call" /\ req.valid /\ req.signature = None /\ req.introspect

LookupFailed(response) ==
    \/ response.kind \in {"error", "wrong type", "bad xml"}
    \/ /\ response.kind = "xml"
       /\ get_method_args_signature(response.node, req.interface, req.member) = None

C19_IntrospectThenCall ==
    IntrospectingCall =>
        /\ pc # "start" =>
              /\ sent # <<>>
              /\ sent[1] = IntrospectRequest
              /\ Len(sent) <= 2
              /\ Len(sent) = 2 => IsMethodCall(sent[2])
        /\ pc = "introspect" => Len(sent) = 1
        /\ pc = "call" => Len(sent) = 2
        /\ (LastOp = "introspect_returns" /\ LookupFailed(reply)) =>
              LET untyped == EncodingsUnder(<<>>)
                  bad     == { i \in 1..Len(untyped) : ~untyped[i].ok }
              IN  /\ Len(warnings) = 1
                  /\ valid_signature = None
                  /\ IF bad = {}
                     THEN /\ pc = "call"
                          /\ sent = <<IntrospectRequest, MethodCallOf(untyped)>>
                          /\ result = NoResult
                     ELSE /\ pc = "done"
                          /\ sent = <<IntrospectRequest>>
                          /\ result = untyped[CHOOSE i \in bad : \A j \in bad : i <= j]

\* the method was not found: a warning, and the method call went out
\* after the introspection request with a String and an Int64
C19_Witness ==
    /\ IntrospectingCall
    /\ LastOp = "introspect_returns"
    /\ reply = XmlReply(Node(<<>>))
    /\ req.args = <<VString(<<"x">>), VInt(Small(1))>>
    /\ Len(warnings) = 1
    /\ sent = <<IntrospectRequest,
                MethodCall(MethodName, <<MString("Str", <<"x">>), MInt("Int64", Small(1))>>)>>

(***************************************************************************)
(* C20: a signature text that was found by introspection and does not      *)
(* parse is fatal to call and to set: an error is returned and no method   *)
(* call is sent.                                                           *)
(***************************************************************************)
IntrospectedText(response) ==
    IF response.kind # "xml" THEN None
    ELSE IF req.op = "call"
    THEN get_method_args_signature(response.node, req.interface, req.member)
    ELSE get_property_signature(response.node, req.interface, req.member)

IntrospectedParseFails ==
    /\ LastOp = "introspect_returns"
    /\ IntrospectedText(reply) # None
    /\ ~parse_all(IntrospectedText(reply).item).ok

C20_IntrospectedParseFatal ==
    IntrospectedParseFails =>
        /\ pc = "done"
        /\ IsClientErr(result)
        /\ \A i \in 1..Len(sent) : ~IsMethodCall(sent[i])


(***************************************************************************)
(* C21: when call has resolved a signature whose number of types differs   *)
(* from the number of arguments, the mismatch is reported to the operator  *)
(* as a diagnostic, and the call goes on: the arguments are encoded and    *)
(* the method call is sent.                                                *)
(***************************************************************************)
ArityMismatch ==
    /\ req.op = "call"
    /\ pc \in {"call", "done"}
    /\ valid_signature # None
    /\ Len(valid_signature.item) # Len(req.args)

IsArityDiagnostic(w) == w[1] # "Warning: D-Bus introspection failed"

C21_MismatchReported ==
    ArityMismatch =>
        /\ \E i \in 1..Len(warnings) : IsArityDiagnostic(warnings[i])
        /\ AllOk(EncodingsUnder(valid_signature.item)) =>
              \E i \in 1..Len(sent) : IsMethodCall(sent[i])


(***************************************************************************)
(* C22: when the no-introspect switch is given on the command, with no     *)
(* value or with the value true, the configuration of the client has       *)
(* introspection disabled and call and set send no introspection request;  *)
(* when the switch is absent, introspection is enabled.                    *)
(***************************************************************************)
IsSwitchOn(named) ==
    /\ named.name = "no-introspect"
    /\ named.value \in {None, Some(VBool(TRUE))}

SwitchGiven == \E i \in 1..Len(req.named) : IsSwitchOn(req.named[i])
SwitchAbsent == \A i \in 1..Len(req.named) : req.named[i].name # "no-introspect"

C22_NoIntrospectSwitch ==
    pc # "start" =>
        /\ SwitchGiven =>
              /\ ~req.introspect
              /\ \A i \in 1..Len(sent) : ~IsIntrospect(sent[i])
        /\ SwitchAbsent => req.introspect


(***************************************************************************)
(* C27: call sends the method call only after every argument was encoded,  *)
(* in the order of the arguments.  If an argument fails to encode, call    *)
(* returns the error of the first such argument, no method call is sent    *)
(* and no reply is awaited.  A call that succeeds has sent exactly one     *)
(* method call and has decoded exactly one reply.                          *)
(***************************************************************************)
\* call has got as far as encoding its arguments
CallEncoded ==
    /\ req.op = "call"
    /\ req.valid
    /\ req.signature # None => parse_all(req.signature.item).ok
    /\ pc \in {"call", "done"}

ResolvedTypes == IF valid_signature = None THEN <<>> ELSE valid_signature.item

FirstFailed(encodings) ==
    encodings[CHOOSE i \in 1..Len(encodings) :
                 /\ ~encodings[i].ok
                 /\ \A j \in 1..(i - 1) : encodings[j].ok]

MethodCallsSent == Cardinality({ i \in 1..Len(sent) : IsMethodCall(sent[i]) })
RepliesAwaited == Cardinality({ i \in 1..Len(ops) : ops[i] = "method_returns" })

C27_SendAfterEncoding ==
    CallEncoded =>
        LET encodings == EncodingsUnder(ResolvedTypes)
        IN  /\ ~AllOk(encodings) =>
                  /\ pc = "done"
                  /\ result = FirstFailed(encodings)
                  /\ MethodCallsSent = 0
                  /\ RepliesAwaited = 0
            /\ AllOk(encodings) =>
                  /\ MethodCallsSent = 1
                  /\ sent[Len(sent)] = MethodCallOf(encodings)
                  /\ RepliesAwaited = IF pc = "done" THEN 1 ELSE 0
            /\ (pc = "done" /\ result.ok) =>
                  /\ AllOk(encodings)
                  /\ reply.kind = "reply"
                  /\ result = from_message(reply.message)

\* the second argument has no encoding: its error is returned and nothing
\* was sent
C27_Witness ==
    /\ req.op = "call"
    /\ req.signature = None
    /\ ~req.introspect
    /\ req.args = <<VString(<<"x">>), VBinary(<<Small(7)>>)>>
    /\ pc = "done"
    /\ ~result.ok
    /\ result = to_message_item(VBinary(<<Small(7)>>), None)
    /\ sent = <<>>

(***************************************************************************)
(* C28: in call with a resolved signature of n types and m arguments,      *)
(* argument i is encoded against type i when i is within the signature,    *)
(* and with no expected type when it is past its end; types past the last  *)
(* argument are not used.  The message carries exactly the m arguments, in *)
(* the order in which they were supplied.                                  *)
(***************************************************************************)
ExpectedItem(i) ==
    to_message_item(req.args[i],
                    IF i <= Len(valid_signature.item) THEN valid_signature.item[i]
                    ELSE None)

C28_PositionalTypes ==
    (CallEncoded /\ valid_signature # None) =>
        IF \A i \in 1..Len(req.args) : ExpectedItem(i).ok
        THEN /\ MethodCallsSent = 1
             /\ LET message == sent[Len(sent)]
                IN  /\ IsMethodCall(message)
                    /\ Len(message.args) = Len(req.args)
                    /\ \A i \in 1..Len(req.args) : message.args[i] = ExpectedItem(i).item
        ELSE MethodCallsSent = 0

\* one type and two arguments: the second argument is an Int64, the type
\* that an integer gets when none is expected
C28_Witness ==
    /\ req.op = "call"
    /\ req.signature = Some(<<"i">>)
    /\ req.args = <<VInt(Small(1)), VInt(Small(1))>>
    /\ valid_signature = Some(<<Int32>>)
    /\ sent = <<MethodCall(MethodName, <<MInt("Int32", Small(1)), MInt("Int64", Small(1))>>)>>

(***************************************************************************)
(* C29: set ends with Ok or with an error value whatever the length of     *)
(* the resolved signature: a signature of no type (an empty text, supplied *)
(* or introspected) or of several types never makes set panic while it     *)
(* selects the expected type of the value.                                 *)
(***************************************************************************)
IsPanic(r) == "panic" \in DOMAIN r /\ r.panic

C29_SetNeverPanics ==
    req.op = "set" => ~IsPanic(result)


(***************************************************************************)
(* C25: parse enforces a maximum nesting depth: a signature text whose     *)
(* containers are nested deeper than the maximum is rejected, with an      *)
(* error of its own, and is not parsed.  The texts drawn here nest up to   *)
(* MaxSigLen - 1 containers, so the claim is put to the test for every     *)
(* maximum below that: no type that parse returns is nested deeper than    *)
(* the largest such maximum.                                               *)
(***************************************************************************)
RECURSIVE Nesting(_)
NestingOfEach(types) ==
    IF types = <<>> THEN 0
    ELSE CHOOSE d \in { Nesting(types[i]) : i \in 1..Len(types) } :
             \A i \in 1..Len(types) : Nesting(types[i]) <= d

\* the number of containers around the innermost type of a type
Nesting(type) ==
    CASE type.tag = "Array"     -> 1 + Nesting(type.content)
      [] type.tag = "Struct"    -> 1 + NestingOfEach(type.types)
      [] type.tag = "DictEntry" -> 1 + NestingOfEach(<<type.key, type.val>>)
      [] OTHER                  -> 0

LargestMaximum == MaxSigLen - 2

C25_NestingLimited ==
    (LastOp = "parse" /\ result.ok) => Nesting(result.type) <= LargestMaximum


(***************************************************************************)
(* Pattern (pattern.rs): the tokens of a pattern text                      *)
(***************************************************************************)
Exact(s)     == [tag |-> "Exact", s |-> s]
OneWildcard  == [tag |-> "OneWildcard"]
ManyWildcard == [tag |-> "ManyWildcard"]
AnyChar      == [tag |-> "AnyChar"]

Pattern(sep, toks) == [separator |-> sep, tokens |-> toks]

\* tokens.last()
last(toks) == IF toks = <<>> THEN None ELSE Some(toks[Len(toks)])

\* *tokens.last_mut().unwrap() = token
set_last(toks, token) == [toks EXCEPT ![Len(toks)] = token]

\* mutant: every other character starts an Exact token of its own
new_push_splits_exact(toks, ch) ==
    IF ch = "*"
    THEN IF last(toks) = Some(OneWildcard)
         THEN set_last(toks, ManyWildcard)
         ELSE Append(toks, OneWildcard)
    ELSE IF ch = "?" THEN Append(toks, AnyChar)
    ELSE Append(toks, Exact(<<ch>>))

\* one turn of for ch in pattern.chars(): the match on ch
new_push(toks, ch) ==
    IF ch = "*"
    THEN IF last(toks) = Some(OneWildcard)
         THEN set_last(toks, ManyWildcard)
         ELSE Append(toks, OneWildcard)
    ELSE IF ch = "?" THEN Append(toks, AnyChar)
    ELSE IF toks # <<>> /\ toks[Len(toks)].tag = "Exact"
    THEN set_last(toks, Exact(Append(toks[Len(toks)].s, ch)))
    ELSE Append(toks, Exact(<<ch>>))

RECURSIVE new_loop(_, _)
new_loop(chars, toks) ==
    IF chars = <<>> THEN toks
    ELSE new_loop(Tail(chars), new_push(toks, Head(chars)))

\* Pattern::new(pattern, separator)
new(text, sep) == Pattern(sep, new_loop(text, <<>>))

(***************************************************************************)
(* Pattern::is_match: strings are sequences of characters; a slice of a    *)
(* &str is taken at a byte index and panics inside a character             *)
(***************************************************************************)
\* a character of two bytes in UTF-8 (e with an acute accent)
EAcute == "U+00E9"

\* ch.len_utf8()
len_utf8(ch) == IF ch = EAcute THEN 2 ELSE 1

\* search_str.starts_with(s)
starts_with(str, s) == Len(s) <= Len(str) /\ SubSeq(str, 1, Len(s)) = s

\* search_str.contains(separator)
contains(str, ch) == \E i \in 1..Len(str) : str[i] = ch

\* &search_str[s.len()..] where search_str starts with s
after_prefix(str, s) == SubSeq(str, Len(s) + 1, Len(str))

Precise == [tag |-> "Precise"]
ScanAhead(stop_at_separator) ==
    [tag |-> "ScanAhead", stop_at_separator |-> stop_at_separator]

\* the value that is_match returns
MatchOk(matched) == [ok |-> TRUE, matched |-> matched]

\* what one turn of the loop does: it goes on, or is_match returns
Continue(toks, str, st) ==
    [returned |-> FALSE, tokens |-> toks, search_str |-> str, state |-> st]
Returned(value) == [returned |-> TRUE, value |-> value]

\* search_str = &search_str[1..] on a string that is not empty: byte
\* index 1 must be a char boundary
skip_char(toks, str, st) ==
    IF len_utf8(Head(str)) = 1
    THEN Continue(toks, Tail(str), st)
    ELSE Returned(Panic("byte index 1 is not a char boundary"))

\* .is_some_and(|sep| search_str.starts_with(sep))
starts_with_separator(sep, str) == sep # None /\ starts_with(str, <<sep.item>>)

\* PatternToken::Exact(s) => ...
exact_arm(sep, s, toks, str, st) ==
    IF starts_with(str, s)
    THEN Continue(Tail(toks), after_prefix(str, s), Precise)
    ELSE IF st = Precise THEN Returned(MatchOk(FALSE))
    ELSE IF str = <<>> THEN Returned(MatchOk(FALSE))
    ELSE IF st.stop_at_separator /\ starts_with_separator(sep, str)
    THEN skip_char(toks, str, Precise)
    ELSE skip_char(toks, str, st)

\* PatternToken::AnyChar => ...
any_char_arm(toks, str, st) ==
    IF str # <<>> THEN skip_char(Tail(toks), str, st)
    ELSE Returned(MatchOk(FALSE))

\* one turn of while !tokens.is_empty(): match tokens.first().unwrap()
while_body(sep, toks, str, st) ==
    CASE Head(toks).tag = "Exact"        -> exact_arm(sep, Head(toks).s, toks, str, st)
      [] Head(toks).tag = "OneWildcard"  -> Continue(Tail(toks), str, ScanAhead(TRUE))
      [] Head(toks).tag = "ManyWildcard" -> Continue(Tail(toks), str, ScanAhead(FALSE))
      [] Head(toks).tag = "AnyChar"      -> any_char_arm(toks, str, st)

\* after the loop: if !search_str.is_empty() { match state { ... } } else { true }
after_loop(sep, str, st) ==
    IF str # <<>>
    THEN IF st = Precise THEN FALSE
         ELSE IF st.stop_at_separator
         THEN IF sep # None THEN ~contains(str, sep.item) ELSE TRUE
         ELSE TRUE
    ELSE TRUE

(***************************************************************************)
(* The pattern matcher as a state machine: a pattern text, a separator and *)
(* a string are drawn; Pattern::new builds the pattern, and is_match runs  *)
(* on the string one turn of its loop at a time.                           *)
(***************************************************************************)
PatternChars == {"a", ".", "*", "?"}
StringChars  == {"a", ".", EAcute}
PatternTexts == SeqsUpTo(PatternChars, MaxPatLen)
Strings      == SeqsUpTo(StringChars, MaxStrLen)
Separators   == {None, Some(".")}

InitPattern ==
    /\ input \in PatternTexts
    /\ separator \in Separators
    /\ string \in Strings
    /\ pattern = NoResult
    /\ tokens = <<>>
    /\ search_str = <<>>
    /\ state = NoResult
    /\ ts = <<>>
    /\ host_value = NoResult /\ expected = NoResult /\ wire_arg = NoResult
    /\ reply = NoResult
    /\ ops = <<>>
    /\ result = NoResult
    /\ NoClient

\* Pattern::new(input, separator)
New ==
    /\ pattern = NoResult
    /\ pattern' = new(input, separator)
    /\ ops' = Append(ops, "new")
    /\ UNCHANGED <<separator, string, tokens, search_str, state, result, gram, conv, cli>>

\* pattern.is_match(string), up to its loop
IsMatch ==
    /\ pattern # NoResult
    /\ state = NoResult
    /\ state' = Precise
    /\ tokens' = pattern.tokens
    /\ search_str' = string
    /\ ops' = Append(ops, "is_match")
    /\ UNCHANGED <<separator, pattern, string, result, gram, conv, cli>>

\* what a turn of the loop leaves behind
Turn(r) ==
    IF r.returned
    THEN /\ result' = r.value
         /\ UNCHANGED <<tokens, search_str, state>>
    ELSE /\ tokens' = r.tokens
         /\ search_str' = r.search_str
         /\ state' = r.state
         /\ result' = result

\* one turn of the loop of is_match
Iterate ==
    /\ state # NoResult
    /\ result = NoResult
    /\ tokens # <<>>
    /\ Turn(while_body(pattern.separator, tokens, search_str, state))
    /\ ops' = Append(ops, "iterate")
    /\ UNCHANGED <<separator, pattern, string, gram, conv, cli>>

\* the loop has ended: is_match returns
AfterLoop ==
    /\ state # NoResult
    /\ result = NoResult
    /\ tokens = <<>>
    /\ result' = MatchOk(after_loop(pattern.separator, search_str, state))
    /\ ops' = Append(ops, "after_loop")
    /\ UNCHANGED <<pat, gram, conv, cli>>

NextPattern == New \/ IsMatch \/ Iterate \/ AfterLoop

SpecPattern == InitPattern /\ [][NextPattern]_vars


(***************************************************************************)
(* What the claims about patterns speak of                                 *)
(***************************************************************************)
\* is_match has returned
Finished == result # NoResult

\* the turns of the loop of is_match so far
Iterations == Cardinality({ i \in 1..Len(ops) : ops[i] = "iterate" })

ends_with(str, s) ==
    Len(s) <= Len(str) /\ SubSeq(str, Len(str) - Len(s) + 1, Len(str)) = s

IsFree(str, sep) == sep = None \/ ~contains(str, sep.item)

\* the string is the tokens one after the other, where an Exact stands for
\* its text, ? for one character, ** for any run of characters and * for
\* a run of characters without the separator
RECURSIVE Denotes(_, _, _)
Denotes(toks, str, sep) ==
    IF toks = <<>> THEN str = <<>>
    ELSE CASE Head(toks).tag = "Exact" ->
                /\ starts_with(str, Head(toks).s)
                /\ Denotes(Tail(toks), after_prefix(str, Head(toks).s), sep)
           [] Head(toks).tag = "AnyChar" ->
                /\ str # <<>>
                /\ Denotes(Tail(toks), Tail(str), sep)
           [] Head(toks).tag = "OneWildcard" ->
                \E k \in 0..Len(str) :
                    /\ IsFree(SubSeq(str, 1, k), sep)
                    /\ Denotes(Tail(toks), SubSeq(str, k + 1, Len(str)), sep)
           [] Head(toks).tag = "ManyWildcard" ->
                \E k \in 0..Len(str) :
                    Denotes(Tail(toks), SubSeq(str, k + 1, Len(str)), sep)

(***************************************************************************)
(* C23: is_match returns true only if the string can be divided among the  *)
(* tokens of the pattern so that the part standing for each single * has   *)
(* no separator in it, when a separator is configured; with no separator   *)
(* the part of a * is any run of characters.                               *)
(***************************************************************************)
C23_OneWildcardStopsAtSeparator ==
    (Finished /\ result = MatchOk(TRUE)) =>
        Denotes(pattern.tokens, string, pattern.separator)

(***************************************************************************)
(* C24: ** stands for any run of characters, separators included: the      *)
(* pattern E1 ** E2, with E1 and E2 exact texts, matches E1 m E2 for every *)
(* string m, and matches no string that does not begin with E1 or does not *)
(* end with E2.                                                            *)
(***************************************************************************)
IsExact(token) == token.tag = "Exact"

\* the tokens are E1 ** E2, where E1 and E2 may be empty
IsAroundManyWildcard(toks) ==
    \/ toks = <<ManyWildcard>>
    \/ Len(toks) = 2 /\ IsExact(toks[1]) /\ toks[2] = ManyWildcard
    \/ Len(toks) = 2 /\ toks[1] = ManyWildcard /\ IsExact(toks[2])
    \/ Len(toks) = 3 /\ IsExact(toks[1]) /\ toks[2] = ManyWildcard /\ IsExact(toks[3])

E1(toks) == IF IsExact(toks[1]) THEN toks[1].s ELSE <<>>
E2(toks) == IF IsExact(toks[Len(toks)]) THEN toks[Len(toks)].s ELSE <<>>

C24_ManyWildcardAnyRun ==
    (Finished /\ IsAroundManyWildcard(pattern.tokens)) =>
        LET e1 == E1(pattern.tokens)
            e2 == E2(pattern.tokens)
        IN  /\ (\E m \in Strings : string = e1 \o m \o e2) => result = MatchOk(TRUE)
            /\ result = MatchOk(TRUE) => starts_with(string, e1) /\ ends_with(string, e2)

(***************************************************************************)
(* C26: Pattern::new reads the text from left to right: each longest run   *)
(* of characters other than * and ? becomes one Exact token, each ? an     *)
(* AnyChar, two * in a row one ManyWildcard and a * alone a OneWildcard.   *)
(* No Exact token is empty and no two Exact tokens are next to each other. *)
(***************************************************************************)
IsPlain(ch) == ch \notin {"*", "?"}

\* the length of the run of plain characters that the text begins with
RECURSIVE PlainRun(_)
PlainRun(text) ==
    IF text = <<>> \/ ~IsPlain(Head(text)) THEN 0 ELSE 1 + PlainRun(Tail(text))

RECURSIVE TokensOf(_)
TokensOf(text) ==
    IF text = <<>> THEN <<>>
    ELSE IF Head(text) = "?" THEN <<AnyChar>> \o TokensOf(Tail(text))
    ELSE IF Head(text) = "*"
    THEN IF Len(text) >= 2 /\ text[2] = "*"
         THEN <<ManyWildcard>> \o TokensOf(SubSeq(text, 3, Len(text)))
         ELSE <<OneWildcard>> \o TokensOf(Tail(text))
    ELSE <<Exact(SubSeq(text, 1, PlainRun(text)))>>
         \o TokensOf(SubSeq(text, PlainRun(text) + 1, Len(text)))

C26_Tokenized ==
    (pattern # NoResult) =>
        /\ pattern.separator = separator
        /\ pattern.tokens = TokensOf(input)
        /\ \A i \in 1..Len(pattern.tokens) :
              IsExact(pattern.tokens[i]) =>
                  /\ pattern.tokens[i].s # <<>>
                  /\ i > 1 => ~IsExact(pattern.tokens[i - 1])

\* a run of two plain characters, then a * alone
C26_Witness ==
    /\ input = <<"a", ".", "*">>
    /\ pattern # NoResult
    /\ pattern.tokens = <<Exact(<<"a", ".">>), OneWildcard>>

(***************************************************************************)
(* C30: is_match ends with a boolean for every pattern and every string:   *)
(* each turn of its loop returns, takes a token of the pattern or takes at *)
(* least one character of the string, so that there are never more turns   *)
(* than tokens and characters together.                                    *)
(***************************************************************************)
C30_EndsWithBoolean ==
    /\ state # NoResult => Iterations <= Len(pattern.tokens) + Len(string)
    /\ Finished => result \in {MatchOk(TRUE), MatchOk(FALSE)}

=============================================================================
